---------------------------- MODULE Spec2Model ----------------------------
(***************************************************************************)
(* Model of run_current_to_gsheet.py: the slot scheduler (pick_slot), the  *)
(* connector invocation boundary (run_script_json), the row upsert         *)
(* (find_or_create_today_row + update of the slot's column range), the     *)
(* row payload (build_row_payload), the KPI calculator                     *)
(* (compute_roas_cpa_for_brand) and the alert (slack_post), as main()      *)
(* sequences them.                                                         *)
(*                                                                         *)
(* Conventions.                                                            *)
(*  - A column name is the sequence of its letters' ordinals (A=1..Z=26):  *)
(*    "B" is <<2>>, "AD" is <<1,4>>.                                       *)
(*  - A JSON value is tagged: [t |-> "null"], [t |-> "num", v |-> n],      *)
(*    [t |-> "str", v |-> s], [t |-> "obj", v |-> f] with f a function     *)
(*    from keys to JSON values.                                            *)
(*  - A sheet is a sequence of rows; a row is a function from the column   *)
(*    indexes that hold a value to that value (column 1 is column A).      *)
(*  - A timestamp is [hour, minute, second, ms] on the UTC+9 civil day;    *)
(*    python's microseconds are kept at millisecond resolution.            *)
(*  - A quotient of two integers (python float division) is kept exact,    *)
(*    as the reduced fraction [num, den].                                  *)
(***************************************************************************)
EXTENDS Integers, Sequences, FiniteSets, TLC

(***************************************************************************)
(* Bounds                                                                  *)
(***************************************************************************)
MaxRuns == 2
\* the longest connector output, in lines
MaxLines == 3
\* the longest text handed to parse_two_numbers on its own, in characters
MaxTextLen == 5
\* the most pages of product orders the commerce API serves for a day
MaxPages == 2
\* the most line items of a marketplace export, below its first row
MaxRows == 2
\* the most action records of an insights row handed to
\* parse_purchases_from_actions on its own
MaxActions == 3

(***************************************************************************)
(* Program constants                                                       *)
(***************************************************************************)
SLOT_TOLERANCE_MINUTES == 70

\* SLOTS with the second slot starting one column early, at "H"
SLOTS_overlapping ==
  << [label |-> "10:00", hh |-> 10, mm |-> 0, col |-> <<2>>],
     [label |-> "12:00", hh |-> 12, mm |-> 0, col |-> <<8>>],
     [label |-> "14:00", hh |-> 14, mm |-> 0, col |-> <<16>>],
     [label |-> "16:00", hh |-> 16, mm |-> 0, col |-> <<23>>],
     [label |-> "18:00", hh |-> 18, mm |-> 0, col |-> <<1, 4>>],
     [label |-> "20:00", hh |-> 20, mm |-> 0, col |-> <<1, 11>>],
     [label |-> "22:00", hh |-> 22, mm |-> 0, col |-> <<1, 18>>] >>

SLOTS ==
  << [label |-> "10:00", hh |-> 10, mm |-> 0, col |-> <<2>>],
     [label |-> "12:00", hh |-> 12, mm |-> 0, col |-> <<9>>],
     [label |-> "14:00", hh |-> 14, mm |-> 0, col |-> <<16>>],
     [label |-> "16:00", hh |-> 16, mm |-> 0, col |-> <<23>>],
     [label |-> "18:00", hh |-> 18, mm |-> 0, col |-> <<1, 4>>],
     [label |-> "20:00", hh |-> 20, mm |-> 0, col |-> <<1, 11>>],
     [label |-> "22:00", hh |-> 22, mm |-> 0, col |-> <<1, 18>>] >>

FIELDS ==
  << "meta_spend", "cafe24_sales", "cafe24_orders", "coupang_sales",
     "coupang_orders", "naver_sales", "naver_orders" >>

\* BRAND_SHEETS in iteration (insertion) order: brand key, sheet name
BRAND_SHEETS ==
  << [brand |-> "burdenzero", sheet |-> "burdenzero_now"],
     [brand |-> "brainology", sheet |-> "brainology_now"] >>

SheetNames == { BRAND_SHEETS[i].sheet : i \in 1..Len(BRAND_SHEETS) }

\* the connector scripts in the order main() runs them
SCRIPTS == << "cafe24", "coupang", "naver", "meta" >>

(***************************************************************************)
(* JSON values                                                             *)
(***************************************************************************)
Null == [t |-> "null"]
Num(n) == [t |-> "num", v |-> n]
Str(s) == [t |-> "str", v |-> s]
Obj(f) == [t |-> "obj", v |-> f]
EmptyObj == Obj(<<>>)

\* python truthiness of a JSON value
Truthy(x) ==
  CASE x.t = "null" -> FALSE
    [] x.t = "num"  -> x.v # 0
    [] x.t = "str"  -> x.v # ""
    [] x.t = "obj"  -> DOMAIN x.v # {}
    [] OTHER        -> TRUE

\* d.get(k): the value under k, or None
DictGet(d, k) == IF k \in DOMAIN d.v THEN d.v[k] ELSE Null

\* (x or default)
OrElse(x, default) == IF Truthy(x) THEN x ELSE default

(***************************************************************************)
(* pick_slot                                                               *)
(***************************************************************************)
Abs(n) == IF n < 0 THEN -n ELSE n

\* the sequences of up to n elements of S: the inputs of a given size
RECURSIVE SeqsUpTo(_, _)
SeqsUpTo(S, n) ==
  IF n = 0 THEN { << >> }
  ELSE LET shorter == SeqsUpTo(S, n - 1)
       IN shorter \cup { Append(q, x) : q \in { y \in shorter : Len(y) = n - 1 }, x \in S }

\* milliseconds since midnight of a timestamp
TotalMs(dt) == ((dt.hour * 60 + dt.minute) * 60 + dt.second) * 1000 + dt.ms

\* dt.replace(hour=hh, minute=mm, second=0, microsecond=0)
Replace(dt, hh, mm) == [hour |-> hh, minute |-> mm, second |-> 0, ms |-> 0]

\* the scan of SLOTS from position i: <<slot>> for the first match, <<>> for None
RECURSIVE pick_slot_from(_, _)
pick_slot_from(dt, i) ==
  IF i > Len(SLOTS) THEN << >>
  ELSE LET center == Replace(dt, SLOTS[i].hh, SLOTS[i].mm)
           tolerance_ms == SLOT_TOLERANCE_MINUTES * 60 * 1000
       IN IF Abs(TotalMs(dt) - TotalMs(center)) <= tolerance_ms
          THEN << [label |-> SLOTS[i].label, col |-> SLOTS[i].col] >>
          ELSE pick_slot_from(dt, i + 1)

\* pick_slot scanning SLOTS from its end: the last match instead of the first
RECURSIVE pick_slot_from_end(_, _)
pick_slot_from_end(dt, i) ==
  IF i < 1 THEN << >>
  ELSE LET center == Replace(dt, SLOTS[i].hh, SLOTS[i].mm)
       IN IF Abs(TotalMs(dt) - TotalMs(center)) <= SLOT_TOLERANCE_MINUTES * 60 * 1000
          THEN << [label |-> SLOTS[i].label, col |-> SLOTS[i].col] >>
          ELSE pick_slot_from_end(dt, i - 1)

pick_slot_last(dt) == pick_slot_from_end(dt, Len(SLOTS))

pick_slot(dt) == pick_slot_from(dt, 1)

(***************************************************************************)
(* col_to_index / index_to_col                                             *)
(***************************************************************************)
RECURSIVE col_to_index_acc(_, _)
col_to_index_acc(col, n) ==
  IF col = << >> THEN n
  ELSE col_to_index_acc(Tail(col), n * 26 + Head(col))

col_to_index(col) == col_to_index_acc(col, 0)

RECURSIVE index_to_col_acc(_, _)
index_to_col_acc(n, s) ==
  IF n > 0
  THEN index_to_col_acc((n - 1) \div 26, << ((n - 1) % 26) + 1 >> \o s)
  ELSE s

index_to_col(n) == index_to_col_acc(n, << >>)

(***************************************************************************)
(* run_script_json                                                         *)
(*                                                                         *)
(* A finished connector process is [returncode, stdout]; stdout is the     *)
(* sequence of its lines, each [k |-> "blank"] (empty after strip),        *)
(* [k |-> "text"] (diagnostic text, not JSON) or [k |-> "json", v |-> x]   *)
(* (a line json.loads parses to x).                                        *)
(***************************************************************************)
TextLine == [k |-> "text"]
BlankLine == [k |-> "blank"]
JsonLine(x) == [k |-> "json", v |-> x]

\* [ln.strip() for ln in stdout.splitlines() if ln.strip()]
NonBlankLines(stdout) == SelectSeq(stdout, LAMBDA ln : ln.k # "blank")

\* run_script_json that answers an empty object where it should raise
run_script_json_lenient(p) ==
  LET lines == NonBlankLines(p.stdout)
  IN IF p.returncode = 0 /\ lines # << >> /\ lines[Len(lines)].k = "json"
     THEN [ok |-> TRUE, val |-> lines[Len(lines)].v]
     ELSE [ok |-> TRUE, val |-> EmptyObj]

\* run_script_json that looks back past trailing text for a line that parses
run_script_json_scanback(p) ==
  IF p.returncode # 0 THEN [ok |-> FALSE, err |-> "SCRIPT FAIL"]
  ELSE LET lines == NonBlankLines(p.stdout)
           parsed == SelectSeq(lines, LAMBDA ln : ln.k = "json")
       IN IF lines = << >> THEN [ok |-> FALSE, err |-> "SCRIPT NO OUTPUT"]
          ELSE IF parsed = << >> THEN [ok |-> FALSE, err |-> "SCRIPT JSON PARSE FAIL"]
               ELSE [ok |-> TRUE, val |-> parsed[Len(parsed)].v]

\* [ok |-> TRUE, val |-> object] on return, [ok |-> FALSE, err |-> kind] on raise
run_script_json(p) ==
  IF p.returncode # 0 THEN [ok |-> FALSE, err |-> "SCRIPT FAIL"]
  ELSE LET lines == NonBlankLines(p.stdout)
       IN IF lines = << >> THEN [ok |-> FALSE, err |-> "SCRIPT NO OUTPUT"]
          ELSE LET last == lines[Len(lines)]
               IN IF last.k = "json" THEN [ok |-> TRUE, val |-> last.v]
                  ELSE [ok |-> FALSE, err |-> "SCRIPT JSON PARSE FAIL"]

(***************************************************************************)
(* The spreadsheet service, at the three calls the program makes           *)
(***************************************************************************)
\* str(cell).strip() over the cell texts of the model: only padded text changes
strip(s) ==
  CASE s = " 2024-05-01 " -> "2024-05-01"
    [] s = " 2024-05-02 " -> "2024-05-02"
    [] OTHER -> s

HasA(row) == 1 \in DOMAIN row /\ row[1] # ""

\* index of the last row with a value in column A (0 when there is none)
LastA(sheet) ==
  LET S == { i \in 1..Len(sheet) : HasA(sheet[i]) }
  IN IF S = {} THEN 0 ELSE CHOOSE i \in S : \A j \in S : j <= i

\* values().get(range="<sheet>!A:A"): one list per row up to the last row
\* with a value, an empty list for a row whose A cell is empty
get_sheet_values(sheet) ==
  [ i \in 1..LastA(sheet) |-> IF HasA(sheet[i]) THEN << sheet[i][1] >> ELSE << >> ]

\* values().append(range="<sheet>!A:A", INSERT_ROWS, [[ymd]]): a new row holding
\* only the date is inserted below the last row of column A's data
append_sheet_values(sheet, ymd) ==
  LET n == LastA(sheet)
  IN SubSeq(sheet, 1, n) \o << (1 :> ymd) >> \o SubSeq(sheet, n + 1, Len(sheet))

\* the service's reading of a column name in an A1 range
A1Column(col) == col_to_index(col)

\* values().update(range="<sheet>!<start_col><row>:<end_col><row>", [values]):
\* the cells of the range take the values, left to right; list entries beyond
\* the range are rejected by the service, so they are never written
update_sheet_values(sheet, start_col, end_col, row, values) ==
  LET c1 == A1Column(start_col)
      c2 == A1Column(end_col)
      padded == [ i \in 1..(IF row > Len(sheet) THEN row ELSE Len(sheet)) |->
                    IF i <= Len(sheet) THEN sheet[i] ELSE << >> ]
      written == { c \in c1..c2 : c - c1 + 1 <= Len(values) }
      old == padded[row]
      new == [ c \in DOMAIN old \cup written |->
                 IF c \in written THEN values[c - c1 + 1] ELSE old[c] ]
  IN [ padded EXCEPT ![row] = new ]

(***************************************************************************)
(* find_or_create_today_row, split at its calls to the service             *)
(***************************************************************************)
\* the scan of column A: index of the first row whose stripped text is ymd, else 0
RECURSIVE scan_colA(_, _, _)
scan_colA(colA, ymd, i) ==
  IF i > Len(colA) THEN 0
  ELSE IF colA[i] # << >> /\ strip(colA[i][1]) = ymd THEN i
       ELSE scan_colA(colA, ymd, i + 1)

\* the scan comparing the row (a list) with ymd (a string): it never matches
find_today_row_never(colA, ymd) == 0

find_today_row(colA, ymd) == scan_colA(colA, ymd, 1)

\* the new row's index taken as one past the re-read column
created_row_index_next(colA2) == Len(colA2) + 1

\* return len(colA2) if colA2 else 1
created_row_index(colA2) == IF colA2 # << >> THEN Len(colA2) ELSE 1

(***************************************************************************)
(* build_row_payload and compute_roas_cpa_for_brand                        *)
(***************************************************************************)
\* int(x) / float(x) of a JSON number
PyNumber(x) == x.v

\* the brand's entry, falling back to the result's own top-level fields when
\* the result carries no entry for the brand
BrandEntry_toplevel(res, brand) ==
  LET e == DictGet(OrElse(DictGet(res, "mapped"), EmptyObj), brand)
  IN IF Truthy(e) THEN e ELSE res

\* (res.get("mapped") or {}).get(brand) or {}
BrandEntry(res, brand) ==
  OrElse(DictGet(OrElse(DictGet(res, "mapped"), EmptyObj), brand), EmptyObj)

\* int(entry.get(field) or 0)
FieldOrZero(entry, field) == PyNumber(OrElse(DictGet(entry, field), Num(0)))

\* the payload with each sales/orders pair in the other order
build_row_payload_swapped(brand, cafe24, coupang, naver, meta) ==
  << FieldOrZero(BrandEntry(meta, brand), "spend"),
     FieldOrZero(BrandEntry(cafe24, brand), "orders"),
     FieldOrZero(BrandEntry(cafe24, brand), "sales"),
     FieldOrZero(BrandEntry(coupang, brand), "orders"),
     FieldOrZero(BrandEntry(coupang, brand), "sales"),
     FieldOrZero(BrandEntry(naver, brand), "orders"),
     FieldOrZero(BrandEntry(naver, brand), "sales") >>

build_row_payload(brand, cafe24, coupang, naver, meta) ==
  LET m  == BrandEntry(meta, brand)
      c  == BrandEntry(cafe24, brand)
      cp == BrandEntry(coupang, brand)
      nv == BrandEntry(naver, brand)
      meta_spend     == FieldOrZero(m, "spend")
      cafe24_sales   == FieldOrZero(c, "sales")
      cafe24_orders  == FieldOrZero(c, "orders")
      coupang_sales  == FieldOrZero(cp, "sales")
      coupang_orders == FieldOrZero(cp, "orders")
      naver_sales    == FieldOrZero(nv, "sales")
      naver_orders   == FieldOrZero(nv, "orders")
  IN << meta_spend, cafe24_sales, cafe24_orders, coupang_sales,
        coupang_orders, naver_sales, naver_orders >>

RECURSIVE Gcd(_, _)
Gcd(a, b) == IF b = 0 THEN a ELSE Gcd(b, a % b)

\* the quotient n / d (d > 0) as a reduced fraction
Quotient(n, d) ==
  LET g == Gcd(Abs(n), d)
  IN [num |-> n \div g, den |-> d \div g]

Zero == [num |-> 0, den |-> 1]

\* the KPI record with purchases taken from the paid-media source
compute_roas_cpa_meta_purchases(brand, cafe24_r, coupang_r, naver_r, meta_r) ==
  LET spend == FieldOrZero(BrandEntry(meta_r, brand), "spend")
      purchases == FieldOrZero(BrandEntry(meta_r, brand), "purchases")
      revenue == FieldOrZero(BrandEntry(cafe24_r, brand), "sales")
                   + FieldOrZero(BrandEntry(coupang_r, brand), "sales")
                   + FieldOrZero(BrandEntry(naver_r, brand), "sales")
  IN [ spend     |-> spend,
       purchases |-> purchases,
       revenue   |-> revenue,
       roas      |-> IF spend > 0 THEN Quotient(revenue, spend) ELSE Zero,
       cpa       |-> IF purchases > 0 THEN Quotient(spend, purchases) ELSE Zero ]

compute_roas_cpa_for_brand(brand, cafe24_r, coupang_r, naver_r, meta_r) ==
  LET m  == BrandEntry(meta_r, brand)
      c  == BrandEntry(cafe24_r, brand)
      cp == BrandEntry(coupang_r, brand)
      nv == BrandEntry(naver_r, brand)
      spend          == FieldOrZero(m, "spend")
      cafe24_sales   == FieldOrZero(c, "sales")
      cafe24_orders  == FieldOrZero(c, "orders")
      coupang_sales  == FieldOrZero(cp, "sales")
      coupang_orders == FieldOrZero(cp, "orders")
      naver_sales    == FieldOrZero(nv, "sales")
      naver_orders   == FieldOrZero(nv, "orders")
      revenue   == cafe24_sales + coupang_sales + naver_sales
      purchases == cafe24_orders + coupang_orders + naver_orders
  IN [ spend     |-> spend,
       purchases |-> purchases,
       revenue   |-> revenue,
       roas      |-> IF spend > 0 THEN Quotient(revenue, spend) ELSE Zero,
       cpa       |-> IF purchases > 0 THEN Quotient(spend, purchases) ELSE Zero ]

(***************************************************************************)
(* The environment of a run: the clock, the calendar day and what each     *)
(* connector process prints                                                *)
(***************************************************************************)
T(h, m, sec, msec) == [hour |-> h, minute |-> m, second |-> sec, ms |-> msec]


Entry2(k1, n1, k2, n2) == Obj((k1 :> Num(n1)) @@ (k2 :> Num(n2)))

\* cafe24_current.py --all --json: its final line
Cafe24Out(bio_sales, bio_orders, bz_sales, bz_orders) ==
  Obj( ("status" :> Str("ok")) @@ ("source" :> Str("cafe24")) @@
       ("mapped" :> Obj( ("brainology" :> Entry2("sales", bio_sales, "orders", bio_orders)) @@
                         ("burdenzero" :> Entry2("sales", bz_sales, "orders", bz_orders)) )) )

\* coupang_current.py --json: its final line (three taxonomy brands)
CoupangOut(bz_sales, bz_orders, bio_sales, bio_orders, pp_sales, pp_orders) ==
  Obj( ("status" :> Str("ok")) @@ ("source" :> Str("coupang")) @@
       ("mapped" :> Obj( ("burdenzero" :> Entry2("sales", bz_sales, "orders", bz_orders)) @@
                         ("brainology" :> Entry2("sales", bio_sales, "orders", bio_orders)) @@
                         ("ppadi" :> Entry2("sales", pp_sales, "orders", pp_orders)) )) )

\* naver_current.py --json: its final line (store-wide figures, no "mapped")
NaverOut(sales, orders) ==
  Obj( ("status" :> Str("ok")) @@ ("source" :> Str("naver")) @@
       ("sales" :> Num(sales)) @@ ("orders" :> Num(orders)) )

\* a storefront result that carries per-brand entries, as the runner reads them
NaverMappedOut(bz_sales, bz_orders, bio_sales, bio_orders) ==
  Obj( ("status" :> Str("ok")) @@ ("source" :> Str("naver")) @@
       ("mapped" :> Obj( ("burdenzero" :> Entry2("sales", bz_sales, "orders", bz_orders)) @@
                         ("brainology" :> Entry2("sales", bio_sales, "orders", bio_orders)) )) )

\* meta_ads_current.py --json: its final line
MetaOut(bz_spend, bz_purchases, bio_spend, bio_purchases) ==
  Obj( ("mapped" :> Obj( ("burdenzero" :> Entry2("spend", bz_spend, "purchases", bz_purchases)) @@
                         ("brainology" :> Entry2("spend", bio_spend, "purchases", bio_purchases)) )) )

\* a process that exits 0 after diagnostic text, a blank line and one JSON line
Printed(x) == [returncode |-> 0, stdout |-> << TextLine, BlankLine, JsonLine(x) >>]
Silent == [returncode |-> 0, stdout |-> << BlankLine >>]

Procs(cafe24, coupang, naver, meta) ==
  ("cafe24" :> cafe24) @@ ("coupang" :> coupang) @@ ("naver" :> naver) @@ ("meta" :> meta)


\* what the four connector processes do in a run
Scenarios ==
  LET Cafe24A == Printed(Cafe24Out(120000, 4, 300000, 10))
      CoupangA == Printed(CoupangOut(200000, 8, 90000, 3, 40000, 2))
      NaverA == Printed(NaverMappedOut(150000, 6, 70000, 1))
      MetaA == Printed(MetaOut(100000, 5, 50000, 2))
      Exit1 == [returncode |-> 1, stdout |-> << TextLine >>]
      TextOnly == [returncode |-> 0, stdout |-> << JsonLine(EmptyObj), TextLine >>]
  IN << Procs(Cafe24A, CoupangA, NaverA, MetaA),
        Procs(Printed(Cafe24Out(0, 0, 1500, 2)), Printed(CoupangOut(-1000, 0, 0, 0, 7000, 1)),
              Printed(NaverOut(150000, 6)), Printed(MetaOut(0, 0, 500, 0))),
        Procs(Exit1, CoupangA, NaverA, MetaA),
        Procs(Cafe24A, Silent, NaverA, MetaA),
        Procs(Cafe24A, CoupangA, TextOnly, MetaA),
        Procs(Cafe24A, CoupangA, NaverA, Exit1),
        Procs(Exit1, Exit1, Silent, TextOnly) >>


(***************************************************************************)
(* State                                                                   *)
(***************************************************************************)
VARIABLES
  sheets,      \* the spreadsheet: sheet name -> sequence of rows
  pc,          \* where main() is: idle, main, cafe24, ..., skipped, done, failed
  runs,        \* number of runs started
  now,         \* now_kst() of the run
  today,       \* the calendar day of the run
  procs,       \* what each connector process does when it is run
  picked,      \* pick_slot(now): <<>> or <<[label, col]>>
  ymd,         \* today_ymd_kst()
  cafe24_res, coupang_res, naver_res, meta_res,
  brand_i,     \* position of the loop over BRAND_SHEETS
  row_idx,     \* find_or_create_today_row's result for the current brand
  error,       \* the error that ended the run, "" when none
  calls,       \* the external calls of the run so far, in order
  alerts,      \* the alert messages delivered in the run
  sheets0,     \* the spreadsheet when the run started
  conn_pc,     \* where the connector process under study is ("off": none)
  world,       \* what answers the connector: the page, the API, the export
  profile_i,   \* position of the connector's loop over its profiles
  trace,       \* the strategies attempted or the requests issued, in order
  raw,         \* the text the extraction strategies returned
  acc,         \* the figures the connector has gathered so far
  conn_out,    \* the lines the connector has printed
  conn_exit,   \* << >> while the connector runs, then << its exit status >>
  events       \* what the current browser session has done, in order

\* the orchestrator's variables
main_vars ==
  << sheets, pc, runs, now, today, procs, picked, ymd, cafe24_res, coupang_res,
     naver_res, meta_res, brand_i, row_idx, error, calls, alerts, sheets0 >>

\* the variables of a connector process
conn_vars == << conn_pc, world, profile_i, trace, raw, acc, conn_out, conn_exit, events >>

vars == << main_vars, conn_vars >>

\* no connector process is under study
ConnOff ==
  /\ conn_pc = "off"
  /\ world = << >>
  /\ profile_i = 1
  /\ trace = << >>
  /\ raw = << >>
  /\ acc = << >>
  /\ conn_out = << >>
  /\ conn_exit = << >>
  /\ events = << >>

env == << now, today, procs >>
results == << cafe24_res, coupang_res, naver_res, meta_res >>

Call(op, arg) == [op |-> op, arg |-> arg]

Init ==
  /\ sheets \in [SheetNames -> { << >>, << (1 :> "date") >> }]
  /\ pc = "idle"
  /\ runs = 0
  /\ now = T(0, 0, 0, 0)
  /\ today = "2024-05-01"
  /\ procs = Scenarios[1]
  /\ picked = << >>
  /\ ymd = ""
  /\ cafe24_res = Null /\ coupang_res = Null /\ naver_res = Null /\ meta_res = Null
  /\ brand_i = 1
  /\ row_idx = 0
  /\ error = ""
  /\ calls = << >>
  /\ alerts = << >>
  /\ sheets0 = sheets
  /\ ConnOff

(***************************************************************************)
(* main()                                                                  *)
(***************************************************************************)
\* the job is triggered: a new process starts at the top of main()
StartRun ==
  /\ pc \in {"idle", "skipped", "done", "failed"}
  /\ runs < MaxRuns
  /\ \E t \in { T(3, 0, 0, 0), T(8, 49, 59, 999), T(8, 50, 0, 0), T(11, 0, 0, 0), T(11, 10, 0, 1), T(14, 0, 0, 0), T(16, 0, 0, 0), T(23, 10, 0, 0), T(23, 10, 0, 1) }, d \in { "2024-05-01", "2024-05-02" }, k \in 1..Len(Scenarios) :
       /\ now' = t
       /\ today' = d
       /\ procs' = Scenarios[k]
  /\ runs' = runs + 1
  /\ pc' = "main"
  /\ picked' = << >>
  /\ ymd' = ""
  /\ cafe24_res' = Null /\ coupang_res' = Null /\ naver_res' = Null /\ meta_res' = Null
  /\ brand_i' = 1
  /\ row_idx' = 0
  /\ error' = ""
  /\ calls' = << >>
  /\ alerts' = << >>
  /\ sheets0' = sheets
  /\ UNCHANGED sheets
  /\ UNCHANGED conn_vars

\* main() without the early return: the run goes on when no slot is picked
PickSlot_NoReturn ==
  /\ pc = "main"
  /\ picked' = pick_slot(now)
  /\ pc' = "cafe24"
  /\ ymd' = today
  /\ UNCHANGED << sheets, runs, env, results, brand_i, row_idx, error, calls,
                  alerts, sheets0 >>
  /\ UNCHANGED conn_vars

\* picked = pick_slot(now); if not picked: return; ymd = today_ymd_kst()
PickSlot ==
  /\ pc = "main"
  /\ picked' = pick_slot(now)
  /\ IF picked' = << >>
     THEN pc' = "skipped" /\ UNCHANGED ymd
     ELSE pc' = "cafe24" /\ ymd' = today
  /\ UNCHANGED << sheets, runs, env, results, brand_i, row_idx, error, calls,
                  alerts, sheets0 >>
  /\ UNCHANGED conn_vars

\* one run_script_json call of main(): the result is bound or the error ends the run
RunScript(script, r, next) ==
  /\ calls' = Append(calls, Call("script", script))
  /\ IF r.ok
     THEN pc' = next /\ UNCHANGED error
     ELSE pc' = "failed" /\ error' = r.err
  /\ UNCHANGED << sheets, runs, env, picked, ymd, brand_i, row_idx, alerts, sheets0 >>
  /\ UNCHANGED conn_vars

RunCafe24 ==
  /\ pc = "cafe24"
  /\ LET r == run_script_json(procs["cafe24"])
     IN /\ RunScript("cafe24", r, "coupang")
        /\ cafe24_res' = IF r.ok THEN r.val ELSE cafe24_res
  /\ UNCHANGED << coupang_res, naver_res, meta_res >>

RunCoupang ==
  /\ pc = "coupang"
  /\ LET r == run_script_json(procs["coupang"])
     IN /\ RunScript("coupang", r, "naver")
        /\ coupang_res' = IF r.ok THEN r.val ELSE coupang_res
  /\ UNCHANGED << cafe24_res, naver_res, meta_res >>

RunNaver ==
  /\ pc = "naver"
  /\ LET r == run_script_json(procs["naver"])
     IN /\ RunScript("naver", r, "meta")
        /\ naver_res' = IF r.ok THEN r.val ELSE naver_res
  /\ UNCHANGED << cafe24_res, coupang_res, meta_res >>

RunMeta ==
  /\ pc = "meta"
  /\ LET r == run_script_json(procs["meta"])
     IN /\ RunScript("meta", r, "svc")
        /\ meta_res' = IF r.ok THEN r.val ELSE meta_res
  /\ UNCHANGED << cafe24_res, coupang_res, naver_res >>

\* svc = get_sheets_service(): raises when neither credential setting is present
GetSheetsService ==
  /\ pc = "svc"
  /\ \E configured \in BOOLEAN :
       IF configured
       THEN pc' = "find" /\ UNCHANGED error
       ELSE pc' = "failed" /\ error' = "ENV"
  /\ UNCHANGED << sheets, runs, env, picked, ymd, results, brand_i, row_idx,
                  calls, alerts, sheets0 >>
  /\ UNCHANGED conn_vars

CurSheet == BRAND_SHEETS[brand_i].sheet

\* find_or_create_today_row: colA = get_sheet_values(...); the scan for ymd
FindRow ==
  /\ pc = "find"
  /\ LET i == find_today_row(get_sheet_values(sheets[CurSheet]), ymd)
     IN IF i > 0
        THEN row_idx' = i /\ pc' = "update"
        ELSE pc' = "append" /\ UNCHANGED row_idx
  /\ calls' = Append(calls, Call("sheets.get", CurSheet))
  /\ UNCHANGED << sheets, runs, env, picked, ymd, results, brand_i, error,
                  alerts, sheets0 >>
  /\ UNCHANGED conn_vars

\* find_or_create_today_row: append_sheet_values(svc, sheet_name, "A:A", [[ymd]])
AppendRow ==
  /\ pc = "append"
  /\ sheets' = [sheets EXCEPT ![CurSheet] = append_sheet_values(@, ymd)]
  /\ calls' = Append(calls, Call("sheets.append", CurSheet))
  /\ pc' = "reread"
  /\ UNCHANGED << runs, env, picked, ymd, results, brand_i, row_idx, error,
                  alerts, sheets0 >>
  /\ UNCHANGED conn_vars

\* find_or_create_today_row: colA2 = get_sheet_values(...); return its length
RereadRow ==
  /\ pc = "reread"
  /\ row_idx' = created_row_index(get_sheet_values(sheets[CurSheet]))
  /\ calls' = Append(calls, Call("sheets.get", CurSheet))
  /\ pc' = "update"
  /\ UNCHANGED << sheets, runs, env, picked, ymd, results, brand_i, error,
                  alerts, sheets0 >>
  /\ UNCHANGED conn_vars

\* the slot's range for the picked start column: start_col, end_col
slot_range(start_col) ==
  LET start_idx == col_to_index(start_col)
      end_idx == start_idx + Len(FIELDS) - 1
  IN [start_col |-> start_col, end_col |-> index_to_col(end_idx)]

\* values = build_row_payload(...); update_sheet_values(svc, sheet_name, range_a1, [values])
UpdateRow ==
  /\ pc = "update"
  /\ LET values == build_row_payload(BRAND_SHEETS[brand_i].brand, cafe24_res, coupang_res, naver_res, meta_res)
         rng == slot_range(picked[1].col)
     IN sheets' = [sheets EXCEPT ![CurSheet] =
                     update_sheet_values(@, rng.start_col, rng.end_col, row_idx, values)]
  /\ calls' = Append(calls, Call("sheets.update", CurSheet))
  /\ IF brand_i < Len(BRAND_SHEETS)
     THEN brand_i' = brand_i + 1 /\ pc' = "find"
     ELSE pc' = "slack" /\ UNCHANGED brand_i
  /\ UNCHANGED << runs, env, picked, ymd, results, row_idx, error, alerts, sheets0 >>
  /\ UNCHANGED conn_vars

\* the message whose two KPI records are each computed for the other brand
alert_message_swapped ==
  [ ymd  |-> ymd,
    slot |-> picked[1].label,
    bz   |-> compute_roas_cpa_for_brand("brainology", cafe24_res, coupang_res, naver_res, meta_res),
    bio  |-> compute_roas_cpa_for_brand("burdenzero", cafe24_res, coupang_res, naver_res, meta_res) ]

\* the message main() builds from the two KPI records
alert_message ==
  [ ymd  |-> ymd,
    slot |-> picked[1].label,
    bz   |-> compute_roas_cpa_for_brand("burdenzero", cafe24_res, coupang_res, naver_res, meta_res),
    bio  |-> compute_roas_cpa_for_brand("brainology", cafe24_res, coupang_res, naver_res, meta_res) ]

\* slack_post(msg): no destination is a no-op; a status >= 300 raises
SlackPost ==
  /\ pc = "slack"
  /\ \E webhook \in {"unset", "accepts", "rejects"} :
       CASE webhook = "unset" ->
              /\ pc' = "done"
              /\ UNCHANGED << calls, alerts, error >>
         [] webhook = "accepts" ->
              /\ pc' = "done"
              /\ calls' = Append(calls, Call("slack.post", "webhook"))
              /\ alerts' = Append(alerts, alert_message)
              /\ UNCHANGED error
         [] webhook = "rejects" ->
              /\ pc' = "failed"
              /\ error' = "SLACK WEBHOOK FAIL"
              /\ calls' = Append(calls, Call("slack.post", "webhook"))
              /\ UNCHANGED alerts
  /\ UNCHANGED << sheets, runs, env, picked, ymd, results, brand_i, row_idx, sheets0 >>
  /\ UNCHANGED conn_vars

Next ==
  \/ StartRun
  \/ PickSlot
  \/ RunCafe24
  \/ RunCoupang
  \/ RunNaver
  \/ RunMeta
  \/ GetSheetsService
  \/ FindRow
  \/ AppendRow
  \/ RereadRow
  \/ UpdateRow
  \/ SlackPost

Spec == Init /\ [][Next]_vars

(***************************************************************************)
(* The per-brand upsert of main()'s loop body, run without interruption:   *)
(* find_or_create_today_row, then the update of the slot's range           *)
(***************************************************************************)
upsert(sheet, date, start_col, values) ==
  LET i == find_today_row(get_sheet_values(sheet), date)
      sheet1 == IF i > 0 THEN sheet ELSE append_sheet_values(sheet, date)
      row == IF i > 0 THEN i ELSE created_row_index(get_sheet_values(sheet1))
      rng == slot_range(start_col)
  IN [ sheet |-> update_sheet_values(sheet1, rng.start_col, rng.end_col, row, values),
       row   |-> row ]

(***************************************************************************)
(* pick_slot on its own: every minute of the day, at the start, the end    *)
(* and just inside the start of a second                                   *)
(***************************************************************************)

InitSlot ==
  /\ sheets = [n \in SheetNames |-> << >>]
  /\ pc = "main"
  /\ runs = 1
  /\ now \in { T(h, m, sec, msec) : h \in 0..23, m \in 0..59, sec \in {0, 59}, msec \in {0, 1, 999} }
  /\ today = "2024-05-01"
  /\ procs = Scenarios[1]
  /\ picked = << >>
  /\ ymd = ""
  /\ cafe24_res = Null /\ coupang_res = Null /\ naver_res = Null /\ meta_res = Null
  /\ brand_i = 1
  /\ row_idx = 0
  /\ error = ""
  /\ calls = << >>
  /\ alerts = << >>
  /\ sheets0 = sheets
  /\ ConnOff

NextSlot == PickSlot

SpecSlot == InitSlot /\ [][NextSlot]_vars

(***************************************************************************)
(* compute_roas_cpa_for_brand on its own: main() at the alert, for every   *)
(* combination of the result objects below                                 *)
(***************************************************************************)

InitKpi ==
  /\ sheets = [n \in SheetNames |-> << >>]
  /\ pc = "slack"
  /\ runs = 1
  /\ now = T(14, 0, 0, 0)
  /\ today = "2024-05-01"
  /\ procs = Scenarios[1]
  /\ picked = pick_slot(now)
  /\ ymd = today
  /\ cafe24_res \in { Cafe24Out(120000, 4, 300000, 10), Cafe24Out(0, 0, 1500, 2), Cafe24Out(900, 0, 0, 0) }
  /\ coupang_res \in { CoupangOut(200000, 8, 90000, 3, 40000, 2), CoupangOut(-1000, 0, 0, 0, 7000, 1), CoupangOut(0, 0, -300, 0, 0, 0) }
  /\ naver_res \in { NaverMappedOut(150000, 6, 70000, 1), NaverOut(150000, 6), NaverMappedOut(0, 0, 0, 0) }
  /\ meta_res \in { MetaOut(100000, 5, 50000, 2), MetaOut(0, 0, 500, 0), MetaOut(7, 3, 0, 9) }
  /\ brand_i = Len(BRAND_SHEETS)
  /\ row_idx = 0
  /\ error = ""
  /\ calls = << >>
  /\ alerts = << >>
  /\ sheets0 = sheets
  /\ ConnOff

NextKpi == SlackPost

SpecKpi == InitKpi /\ [][NextKpi]_vars

(***************************************************************************)
(* The orchestrator at rest, while a connector process is studied          *)
(***************************************************************************)
MainIdle ==
  /\ sheets = [n \in SheetNames |-> << >>]
  /\ pc = "idle"
  /\ runs = 0
  /\ now = T(14, 0, 0, 0)
  /\ today = "2024-05-01"
  /\ procs = Scenarios[1]
  /\ picked = << >>
  /\ ymd = ""
  /\ cafe24_res = Null /\ coupang_res = Null /\ naver_res = Null /\ meta_res = Null
  /\ brand_i = 1
  /\ row_idx = 0
  /\ error = ""
  /\ calls = << >>
  /\ alerts = << >>
  /\ sheets0 = sheets

\* an uncaught exception ends the connector process: exit status 1, nothing
\* more printed on stdout
ConnRaise ==
  /\ conn_pc' = "exit"
  /\ conn_exit' = << 1 >>

\* the same, but a snapshot that raises also skips the finally
BrowserRaise_leak(log) ==
  /\ \E captured \in BOOLEAN :
       events' = log \o (IF captured
                         THEN << "save_debug", "context.close", "browser.close", "error.failure" >>
                         ELSE << "save_debug.raise", "error.snapshot" >>)
  /\ ConnRaise

\* an exception inside the try of a browser session whose events so far are
\* log: except Exception as e: save_debug(...); raise RuntimeError(...) from e;
\* finally: context.close(); browser.close(). save_debug has no try of its
\* own: when the screenshot or the page content raises, that exception leaves
\* the except block in place of the RuntimeError
BrowserRaise(log) ==
  /\ \E captured \in BOOLEAN :
       events' = log \o (IF captured
                         THEN << "save_debug", "context.close", "browser.close", "error.failure" >>
                         ELSE << "save_debug.raise", "context.close", "browser.close",
                                 "error.snapshot" >>)
  /\ ConnRaise

(***************************************************************************)
(* cafe24_current.py: texts                                                *)
(*                                                                         *)
(* A text is the sequence of its characters, each a one-character string.  *)
(***************************************************************************)
Digits == { "0", "1", "2", "3", "4", "5", "6", "7", "8", "9" }

DigitValue(c) ==
  CASE c = "0" -> 0 [] c = "1" -> 1 [] c = "2" -> 2 [] c = "3" -> 3 [] c = "4" -> 4
    [] c = "5" -> 5 [] c = "6" -> 6 [] c = "7" -> 7 [] c = "8" -> 8 [] c = "9" -> 9

\* re.sub(r"\s+", " ", text): every run of whitespace becomes one space
RECURSIVE collapse_spaces(_)
collapse_spaces(text) ==
  IF text = << >> THEN << >>
  ELSE IF Len(text) >= 2 /\ text[1] = " " /\ text[2] = " "
       THEN collapse_spaces(Tail(text))
       ELSE << Head(text) >> \o collapse_spaces(Tail(text))

\* normalize_text: re.sub(r"\s+", " ", (text or "")).strip()
normalize_text(text) ==
  LET c == collapse_spaces(text)
      a == IF c # << >> /\ c[1] = " " THEN Tail(c) ELSE c
  IN IF a # << >> /\ a[Len(a)] = " " THEN SubSeq(a, 1, Len(a) - 1) ELSE a

\* re.findall(r"\d[\d,]*", text), scanning left to right: cur is the match
\* being extended (<< >> outside a match), found the matches so far
RECURSIVE findall_numbers(_, _, _)
findall_numbers(text, cur, found) ==
  IF text = << >> THEN (IF cur = << >> THEN found ELSE Append(found, cur))
  ELSE LET c == Head(text)
       IN IF cur = << >>
          THEN IF c \in Digits
               THEN findall_numbers(Tail(text), << c >>, found)
               ELSE findall_numbers(Tail(text), << >>, found)
          ELSE IF c \in Digits \/ c = ","
               THEN findall_numbers(Tail(text), Append(cur, c), found)
               ELSE findall_numbers(Tail(text), << >>, Append(found, cur))

\* int(num.replace(",", ""))
RECURSIVE int_without_commas(_, _)
int_without_commas(num, n) ==
  IF num = << >> THEN n
  ELSE IF Head(num) = "," THEN int_without_commas(Tail(num), n)
       ELSE int_without_commas(Tail(num), n * 10 + DigitValue(Head(num)))

\* parse_two_numbers answering (amount, 0) for a text with a single number
parse_two_numbers_partial(text) ==
  LET nums == findall_numbers(normalize_text(text), << >>, << >>)
  IN IF Len(nums) < 1 THEN [ok |-> FALSE]
     ELSE [ ok |-> TRUE,
            sales |-> int_without_commas(nums[1], 0),
            orders |-> IF Len(nums) < 2 THEN 0 ELSE int_without_commas(nums[2], 0) ]

\* [ok |-> TRUE, sales, orders] on return, [ok |-> FALSE] on ValueError
parse_two_numbers(text) ==
  LET nums == findall_numbers(normalize_text(text), << >>, << >>)
  IN IF Len(nums) < 2 THEN [ok |-> FALSE]
     ELSE [ ok |-> TRUE,
            sales |-> int_without_commas(nums[1], 0),
            orders |-> int_without_commas(nums[2], 0) ]

(***************************************************************************)
(* cafe24_current.py: the dashboard page and the extraction strategies     *)
(*                                                                         *)
(* A page says what each step of the two scrape functions meets: a wait    *)
(* ends Ok or Raises (timeout); a read Raises or yields a text.            *)
(***************************************************************************)
Ok == [k |-> "ok"]
Raise == [k |-> "raise"]
Text(t) == [k |-> "text", v |-> t]


\* the texts a read can get: "1,200w 3w" and "80 1" hold an amount and a
\* count, "50" a single number, "-" none; " " is blank
Pages ==
  [ label_wait   : { Ok, Raise },
    role_cell    : { Raise, Text(<< >>), Text(<< "1", ",", "2", "0", "0", "w", " ", "3", "w" >>), Text(<< "-" >>) },
    markup_scan  : { Raise, Text(<< " " >>), Text(<< "8", "0", " ", "1" >>), Text(<< "5", "0" >>) },
    header_wait  : { Ok, Raise },
    header_cell  : { Raise, Text(<< >>), Text(<< "8", "0", " ", "1" >>), Text(<< "-" >>) },
    header_table : { Raise, Text(<< " " >>), Text(<< "1", ",", "2", "0", "0", "w", " ", "3", "w" >>), Text(<< "5", "0" >>) } ]

\* the profiles in the order main() --all queries them
PROFILES == << "brainology", "burdenzero" >>

Step(name, out) == [step |-> name, out |-> out]

\* get_current_metrics up to the dashboard: the browser is launched, then
\* login_cafe24, wait_after_login, get_dashboard_url and page.goto run inside
\* the try. login_cafe24 reads its settings before it navigates; without a
\* form it saves a snapshot and raises; its check that the form is no longer
\* displayed sits in a try whose `except Exception: pass` takes the snapshot's
\* and the check's own exception, so the fetch goes on. A launch that raises
\* is outside the try and leaves nothing open
Cafe24Open ==
  /\ conn_pc = "c24.open"
  /\ \E outcome \in { "launch raises", "setting missing", "form not found", "form still displayed",
                       "logged in", "dashboard setting missing", "goto raises" } :
       LET submitted == << "launch", "login.goto", "login.submit" >>
       IN CASE outcome = "launch raises" ->
                 /\ events' = << "launch.raise", "error.launch" >>
                 /\ ConnRaise /\ UNCHANGED world
            [] outcome = "setting missing" ->
                 BrowserRaise(<< "launch" >>) /\ UNCHANGED world
            [] outcome = "form not found" ->
                 /\ \E captured \in BOOLEAN :
                      BrowserRaise(<< "launch", "login.goto",
                                      IF captured THEN "save_debug" ELSE "save_debug.raise" >>)
                 /\ UNCHANGED world
            [] outcome = "form still displayed" ->
                 /\ events' = submitted \o << "login.form_displayed", "login.save_debug",
                                               "dashboard.goto" >>
                 /\ world' \in Pages
                 /\ conn_pc' = "c24.label_wait"
                 /\ UNCHANGED conn_exit
            [] outcome = "logged in" ->
                 /\ events' = submitted \o << "dashboard.goto" >>
                 /\ world' \in Pages
                 /\ conn_pc' = "c24.label_wait"
                 /\ UNCHANGED conn_exit
            [] outcome = "dashboard setting missing" ->
                 /\ PROFILES[profile_i] # "brainology"
                 /\ BrowserRaise(submitted) /\ UNCHANGED world
            [] outcome = "goto raises" ->
                 BrowserRaise(submitted \o << "dashboard.goto.raise" >>) /\ UNCHANGED world
  /\ trace' = << >>
  /\ raw' = << >>
  /\ UNCHANGED << main_vars, profile_i, acc, conn_out >>

\* one read of a scrape function: `if text: return text` hands the text to
\* parse_two_numbers, anything else goes on to `otherwise`; a read that got a
\* text has printed its debug line when `prints`
Read(name, out, prints, otherwise) ==
  /\ trace' = Append(trace, Step(name, out))
  /\ conn_out' = IF prints /\ out.k = "text" THEN Append(conn_out, TextLine) ELSE conn_out
  /\ IF out.k = "text" /\ normalize_text(out.v) # << >>
     THEN /\ raw' = normalize_text(out.v)
          /\ conn_pc' = "c24.parse"
          /\ UNCHANGED << conn_exit, events >>
     ELSE /\ UNCHANGED raw
          /\ IF otherwise = "raise"
             THEN BrowserRaise(events)
             ELSE conn_pc' = otherwise /\ UNCHANGED << conn_exit, events >>
  /\ UNCHANGED << main_vars, world, profile_i, acc >>

\* scrape_by_total_order_amount_right_cell: label.wait_for, outside any try; its
\* exception leaves the function and main's except goes to the second function
PrimaryWait ==
  /\ conn_pc = "c24.label_wait"
  /\ trace' = Append(trace, Step("label_wait", world.label_wait))
  /\ conn_pc' = IF world.label_wait = Ok THEN "c24.role_cell" ELSE "c24.header_wait"
  /\ UNCHANGED << main_vars, events, world, profile_i, raw, acc, conn_out, conn_exit >>

\* scrape_by_total_order_amount_right_cell: the cell right of the label, by role
PrimaryRoleCell ==
  /\ conn_pc = "c24.role_cell"
  /\ Read("role_cell", world.role_cell, TRUE, "c24.markup_scan")

\* scrape_by_total_order_amount_right_cell: the scan of all elements for the
\* label's exact text and the read of its sibling; with no text the function
\* raises and main's except goes to the second function
PrimaryMarkupScan ==
  /\ conn_pc = "c24.markup_scan"
  /\ Read("markup_scan", world.markup_scan, TRUE, "c24.header_wait")

\* scrape_today_header_below_cell_text: header.wait_for, outside any try; its
\* exception leaves get_current_metrics
SecondaryWait ==
  /\ conn_pc = "c24.header_wait"
  /\ trace' = Append(trace, Step("header_wait", world.header_wait))
  /\ IF world.header_wait = Ok
     THEN conn_pc' = "c24.header_cell" /\ UNCHANGED << conn_exit, events >>
     ELSE BrowserRaise(events)
  /\ UNCHANGED << main_vars, world, profile_i, raw, acc, conn_out >>

\* scrape_today_header_below_cell_text: the cell below the column header, by role
SecondaryHeaderCell ==
  /\ conn_pc = "c24.header_cell"
  /\ Read("header_cell", world.header_cell, FALSE, "c24.header_table")

\* scrape_today_header_below_cell_text: the same cell through the table
\* markup; with no text the function raises and get_current_metrics fails
SecondaryHeaderTable ==
  /\ conn_pc = "c24.header_table"
  /\ Read("header_table", world.header_table, FALSE, "raise")

\* the dict get_current_metrics returns
cafe24_metrics(date, sales, orders, profile) ==
  Obj( ("status" :> Str("ok")) @@ ("date" :> Str(date)) @@ ("sales" :> Num(sales)) @@
       ("orders" :> Num(orders)) @@ ("source" :> Str("cafe24")) @@
       ("profile" :> Str(profile)) )

\* sales, orders = parse_two_numbers(raw); return {...}: the return runs the
\* finally; a ValueError goes through the except and the finally and leaves
\* get_current_metrics as an error that main() does not catch
Cafe24Parse ==
  /\ conn_pc = "c24.parse"
  /\ LET r == parse_two_numbers(raw)
         profile == PROFILES[profile_i]
     IN IF r.ok
        THEN /\ acc' = acc @@ (profile :> cafe24_metrics(today, r.sales, r.orders, profile))
             /\ IF profile_i < Len(PROFILES)
                THEN profile_i' = profile_i + 1 /\ conn_pc' = "c24.open"
                ELSE conn_pc' = "c24.print" /\ UNCHANGED profile_i
             /\ events' = events \o << "context.close", "browser.close" >>
             /\ UNCHANGED conn_exit
        ELSE BrowserRaise(events) /\ UNCHANGED << acc, profile_i >>
  /\ UNCHANGED << main_vars, world, trace, raw, conn_out >>

\* main() --all: the object printed from r_bio and r_bz
cafe24_main_out(r_bio, r_bz) ==
  Obj( ("status" :> Str("ok")) @@ ("source" :> Str("cafe24")) @@
       ("date" :> OrElse(DictGet(r_bio, "date"), DictGet(r_bz, "date"))) @@
       ("mapped" :> Obj(
          ("brainology" :> Obj( ("sales" :> DictGet(r_bio, "sales")) @@
                                ("orders" :> DictGet(r_bio, "orders")) )) @@
          ("burdenzero" :> Obj( ("sales" :> DictGet(r_bz, "sales")) @@
                                ("orders" :> DictGet(r_bz, "orders")) )) )) )

\* main() --all --json: print(json.dumps(out)); return
Cafe24Print ==
  /\ conn_pc = "c24.print"
  /\ conn_out' = Append(conn_out, JsonLine(cafe24_main_out(acc["brainology"], acc["burdenzero"])))
  /\ conn_exit' = << 0 >>
  /\ conn_pc' = "exit"
  /\ UNCHANGED << main_vars, events, world, profile_i, trace, raw, acc >>

(***************************************************************************)
(* meta_ads_current.py                                                     *)
(*                                                                         *)
(* A response is [status |-> 200, ...payload] or [status |-> 400]; each    *)
(* request is logged in `trace` with the profile it is made for and the    *)
(* response it got. A decimal string is kept as its number of tenths:      *)
(* "2.7" is Dec(27), "-3" is Dec(-30).                                     *)
(***************************************************************************)
PURCHASE_ACTION_KEYS ==
  { "purchase", "omni_purchase", "offsite_conversion.purchase",
    "web_in_store_purchase", "onsite_conversion.purchase" }

NEEDED_PERMS == { "ads_read", "read_insights" }

\* the action types of the model that end in ".purchase"
EndsWithDotPurchase(at) ==
  at \in { "offsite_conversion.purchase", "onsite_conversion.purchase",
           "app_custom_event.purchase" }

Dec(tenths) == [t |-> "dec", v |-> tenths]

\* int(float(val)) of a decimal string: the fraction is dropped, toward zero
int_of_float(tenths) == IF tenths >= 0 THEN tenths \div 10 ELSE -((-tenths) \div 10)

\* the sum over the actions of every type
RECURSIVE parse_purchases_from_actions_any(_)
parse_purchases_from_actions_any(actions) ==
  IF actions = << >> THEN 0
  ELSE LET a == Head(actions)
       IN (IF a.value.t = "dec" THEN int_of_float(a.value.v) ELSE 0)
          + parse_purchases_from_actions_any(Tail(actions))

\* the sum of int(float(value)) over the purchase actions; a value of None is
\* skipped, a value float() rejects (ValueError) adds nothing
RECURSIVE parse_purchases_from_actions(_)
parse_purchases_from_actions(actions) ==
  IF actions = << >> THEN 0
  ELSE LET a == Head(actions)
           is_purchase == a.action_type \in PURCHASE_ACTION_KEYS
                            \/ EndsWithDotPurchase(a.action_type)
       IN (IF a.value.t = "dec" /\ is_purchase THEN int_of_float(a.value.v) ELSE 0)
          + parse_purchases_from_actions(Tail(actions))

\* the ad account of each profile, after normalize_act_id
AdAccount(profile) == IF profile = "brainology" THEN "act_1" ELSE "act_2"

Action(at, value) == [action_type |-> at, value |-> value]
InsightsRow(date_start, spend, actions) ==
  [date_start |-> date_start, spend |-> spend, actions |-> actions]

\* the loop of fetch_insights_current_spend over rows: [spend, purchases]
RECURSIVE sum_insights(_, _)
sum_insights(rows, date) ==
  IF rows = << >> THEN [spend |-> 0, purchases |-> 0]
  ELSE LET row == Head(rows)
           rest == sum_insights(Tail(rows), date)
       IN IF row.date_start # "" /\ row.date_start # date THEN rest
          ELSE [ spend |-> row.spend + rest.spend,
                 purchases |-> parse_purchases_from_actions(row.actions) + rest.purchases ]

Request(api, profile, response) == [step |-> api, profile |-> profile, out |-> response]




InsightsResponses ==
  { [status |-> 400],
    [status |-> 200, rows |-> << >>],
    [status |-> 200, rows |->
       << InsightsRow("2024-05-01", 100000,
                      << Action("purchase", Dec(50)), Action("link_click", Dec(900)) >>) >>],
    [status |-> 200, rows |->
       << InsightsRow("2024-05-01", 50000,
                      << Action("omni_purchase", Dec(27)), Action("purchase", [t |-> "words"]),
                         Action("app_custom_event.purchase", Null) >>),
          InsightsRow("2024-04-30", 900, << Action("purchase", Dec(10)) >>) >>],
    [status |-> 200, rows |->
       << InsightsRow("", 500, << Action("purchase", Dec(-30)) >>) >>] }

\* main() up to the loop: must_env for the four settings, then the banner
MetaStart ==
  /\ conn_pc = "meta.start"
  /\ \E configured \in BOOLEAN :
       IF configured
       THEN /\ conn_pc' = "meta.debug_token"
            /\ conn_out' = Append(conn_out, TextLine)
            /\ UNCHANGED << trace, conn_exit >>
       ELSE /\ trace' = Append(trace, Request("raised", PROFILES[profile_i], [kind |-> "ENV ERROR"]))
            /\ ConnRaise
            /\ UNCHANGED conn_out
  /\ UNCHANGED << main_vars, events, world, profile_i, raw, acc >>

\* preflight 1): dbg = debug_token(token); if not is_valid: raise
MetaDebugToken ==
  /\ conn_pc = "meta.debug_token"
  /\ \E r \in { [status |-> 400], [status |-> 200, is_valid |-> TRUE], [status |-> 200, is_valid |-> FALSE] } :
       LET asked == Append(trace, Request("debug_token", PROFILES[profile_i], r))
       IN IF r.status # 200
          THEN trace' = Append(asked, Request("raised", PROFILES[profile_i], [kind |-> "HTTP ERROR"])) /\ ConnRaise
          ELSE IF ~ r.is_valid
               THEN trace' = Append(asked, Request("raised", PROFILES[profile_i], [kind |-> "TOKEN INVALID"]))
                    /\ ConnRaise
               ELSE trace' = asked /\ conn_pc' = "meta.permissions" /\ UNCHANGED conn_exit
  /\ UNCHANGED << main_vars, events, world, profile_i, raw, acc, conn_out >>

\* preflight 2): granted = /me/permissions; NEEDED_PERMS - granted must be empty
MetaPermissions ==
  /\ conn_pc = "meta.permissions"
  /\ \E r \in { [status |-> 400] } \cup { [status |-> 200, granted |-> g] : g \in SUBSET { "ads_read", "read_insights", "ads_management" } } :
       LET asked == Append(trace, Request("permissions", PROFILES[profile_i], r))
       IN IF r.status # 200
          THEN trace' = Append(asked, Request("raised", PROFILES[profile_i], [kind |-> "HTTP ERROR"])) /\ ConnRaise
          ELSE IF NEEDED_PERMS \ r.granted # {}
               THEN trace' = Append(asked, Request("raised", PROFILES[profile_i], [kind |-> "PERMISSION MISSING"]))
                    /\ ConnRaise
               ELSE trace' = asked /\ conn_pc' = "meta.adaccounts" /\ UNCHANGED conn_exit
  /\ UNCHANGED << main_vars, events, world, profile_i, raw, acc, conn_out >>

\* preflight 3): accessible = /me/adaccounts; target_act must be in it
MetaAdAccounts ==
  /\ conn_pc = "meta.adaccounts"
  /\ \E r \in { [status |-> 400] } \cup { [status |-> 200, accessible |-> a] : a \in SUBSET { "act_1", "act_2" } } :
       LET asked == Append(trace, Request("adaccounts", PROFILES[profile_i], r))
       IN IF r.status # 200
          THEN trace' = Append(asked, Request("raised", PROFILES[profile_i], [kind |-> "HTTP ERROR"])) /\ ConnRaise
          ELSE IF AdAccount(PROFILES[profile_i]) \notin r.accessible
               THEN trace' = Append(asked, Request("raised", PROFILES[profile_i], [kind |-> "AD ACCOUNT ACCESS"]))
                    /\ ConnRaise
               ELSE trace' = asked /\ conn_pc' = "meta.insights" /\ UNCHANGED conn_exit
  /\ UNCHANGED << main_vars, events, world, profile_i, raw, acc, conn_out >>

\* res = fetch_insights_current_spend(...); mapped[name] = {date, spend, purchases};
\* the API answers world.insights when the world fixes the answer
MetaInsights ==
  /\ conn_pc = "meta.insights"
  /\ \E r \in (IF world = << >> THEN InsightsResponses ELSE { world.insights }) :
       LET asked == Append(trace, Request("insights", PROFILES[profile_i], r))
           profile == PROFILES[profile_i]
       IN IF r.status # 200
          THEN /\ trace' = Append(asked, Request("raised", profile, [kind |-> "INSIGHTS FAIL"]))
               /\ ConnRaise
               /\ UNCHANGED << acc, profile_i, conn_out >>
          ELSE LET res == sum_insights(r.rows, today)
               IN /\ trace' = asked
                  /\ acc' = acc @@ (profile :> Obj( ("date" :> Str(today)) @@
                                                     ("spend" :> Num(res.spend)) @@
                                                     ("purchases" :> Num(res.purchases)) ))
                  /\ conn_out' = Append(conn_out, TextLine)
                  /\ IF profile_i < Len(PROFILES)
                     THEN profile_i' = profile_i + 1 /\ conn_pc' = "meta.debug_token"
                     ELSE conn_pc' = "meta.print" /\ UNCHANGED profile_i
                  /\ UNCHANGED conn_exit
  /\ UNCHANGED << main_vars, events, world, raw >>

\* the object main() prints under --json
meta_main_out(date, mapped) ==
  LET default == Obj(("spend" :> Num(0)) @@ ("purchases" :> Num(0)))
      entry(name) == IF name \in DOMAIN mapped THEN mapped[name] ELSE default
      total(field) == PyNumber(DictGet(entry("burdenzero"), field))
                        + PyNumber(DictGet(entry("brainology"), field))
  IN Obj( ("date" :> Str(date)) @@
          ("mapped" :> Obj( ("burdenzero" :> entry("burdenzero")) @@
                            ("brainology" :> entry("brainology")) )) @@
          ("total" :> Obj( ("spend" :> Num(total("spend"))) @@
                           ("purchases" :> Num(total("purchases"))) )) )

\* if args.json: print(json.dumps(out))
MetaPrint ==
  /\ conn_pc = "meta.print"
  /\ conn_out' = Append(conn_out, JsonLine(meta_main_out(today, acc)))
  /\ conn_exit' = << 0 >>
  /\ conn_pc' = "exit"
  /\ UNCHANGED << main_vars, events, world, profile_i, trace, raw, acc >>

(***************************************************************************)
(* naver_current.py                                                        *)
(*                                                                         *)
(* acc is [order_ids, sales, count, page]: the distinct order ids, the     *)
(* amount and the number of line items so far, and the page to ask next.   *)
(***************************************************************************)
\* safe_int: None and bool give 0, an int itself, a string of digits its
\* number, any other string 0
safe_int(v) ==
  CASE v.t = "null" -> 0
    [] v.t = "bool" -> 0
    [] v.t = "num"  -> v.v
    [] v.t = "str"  ->
         LET str == normalize_text(v.v)
         IN IF str # << >> /\ \A i \in 1..Len(str) : str[i] \in Digits
            THEN int_without_commas(str, 0)
            ELSE 0
    [] OTHER -> 0

\* a row of the product-orders response
ProductOrder(order_id, amount, discount) ==
  [orderId |-> order_id, initialProductAmount |-> amount,
   initialProductDiscountAmount |-> discount]

\* the loop body that leaves the discount out of the amount
RECURSIVE add_product_orders_gross(_, _)
add_product_orders_gross(rows, a) ==
  IF rows = << >> THEN a
  ELSE LET row == Head(rows)
           ids == IF Truthy(row.orderId) THEN a.order_ids \cup { row.orderId.v }
                  ELSE a.order_ids
           amount == safe_int(row.initialProductAmount)
       IN add_product_orders_gross(Tail(rows),
            [a EXCEPT !.order_ids = ids, !.sales = @ + amount, !.count = @ + 1])

\* the body of the loop of get_daily_metrics over the rows of one page
RECURSIVE add_product_orders(_, _)
add_product_orders(rows, a) ==
  IF rows = << >> THEN a
  ELSE LET row == Head(rows)
           ids == IF Truthy(row.orderId) THEN a.order_ids \cup { row.orderId.v }
                  ELSE a.order_ids
           amount == safe_int(row.initialProductAmount)
                       - safe_int(row.initialProductDiscountAmount)
       IN add_product_orders(Tail(rows),
            [a EXCEPT !.order_ids = ids, !.sales = @ + amount, !.count = @ + 1])



\* what the commerce API may answer a request for a page; an answer carries
\* the page that was asked for
ProductOrdersResponses(page) ==
  { [status |-> 400, page |-> page] } \cup
  { [status |-> 200, page |-> page, contents |-> c, hasNext |-> n] :
      c \in { << >>,
               << ProductOrder(Str("o1"), Num(30000), Num(5000)),
                  ProductOrder(Str("o1"), Num(10000), Null) >>,
               << ProductOrder(Str("o2"), Str(<< "1", "2", "0", "0" >>), Num(0)),
                  ProductOrder(Null, Num(500), Str(<< "1", ",", "0" >>)) >>,
               << ProductOrder(Str("o3"), Num(1000), Num(4000)) >> },
      n \in { b \in BOOLEAN : b => page < MaxPages } }

\* is_token_valid at time t: a payload with a token and an expiry that lies
\* more than the safety margin of 60 seconds ahead; << >> is no payload
is_token_valid_nomargin(payload, t) ==
  /\ payload # << >>
  /\ payload.access_token # ""
  /\ payload.expires_at # 0
  /\ payload.expires_at - t > 0

is_token_valid(payload, t) ==
  /\ payload # << >>
  /\ payload.access_token # ""
  /\ payload.expires_at # 0
  /\ payload.expires_at - t > 60

\* get_daily_metrics up to the first request: the two settings must be set;
\* get_access_token returns the cached token when force_refresh is not set and
\* is_token_valid holds of load_cached_token(), and asks for a new one
\* otherwise. The world is the cache file (<< >>: none, or none that json.load
\* reads), the clock in seconds and the --force-token flag
NaverStart ==
  /\ conn_pc = "naver.start"
  /\ \E configured \in BOOLEAN, force \in BOOLEAN,
        cached \in { << >> } \cup [access_token : { "", "old" }, expires_at : { 0, 990, 1060, 1061 }] :
       LET clock == 1000
           cached_valid == ~ force /\ is_token_valid(cached, clock)
       IN /\ world' = [cache |-> cached, clock |-> clock, force |-> force]
          /\ acc' = [order_ids |-> {}, sales |-> 0, count |-> 0, page |-> 1,
                     token |-> IF cached_valid THEN cached.access_token ELSE ""]
          /\ IF ~ configured
             THEN trace' = Append(trace, Request("raised", "naver", [kind |-> "ValueError"])) /\ ConnRaise
             ELSE /\ trace' = Append(trace, Request("cached_token", "naver",
                                                     [is_valid |-> cached_valid]))
                  /\ conn_pc' = IF cached_valid THEN "naver.orders" ELSE "naver.token"
                  /\ UNCHANGED conn_exit
  /\ UNCHANGED << main_vars, events, profile_i, raw, conn_out >>

\* issue_token_self: POST to the token URL; a status other than 200 raises;
\* expires_at = int(time.time()) + max(expires_in, 0). save_cached_token
\* writes the payload, or fails and passes
NaverToken ==
  /\ conn_pc = "naver.token"
  /\ \E r \in { [status |-> 400] } \cup
               { [status |-> 200, access_token |-> "new", expires_in |-> e] : e \in { 10800, -5 } },
        written \in BOOLEAN :
       LET asked == Append(trace, Request("oauth_token", "naver", r))
       IN IF r.status # 200
          THEN /\ trace' = Append(asked, Request("raised", "naver", [kind |-> "TOKEN ERROR"]))
               /\ ConnRaise
               /\ UNCHANGED << world, acc >>
          ELSE /\ trace' = asked
               /\ world' = IF written
                           THEN [world EXCEPT !.cache =
                                   [access_token |-> r.access_token,
                                    expires_at |-> world.clock
                                                     + (IF r.expires_in > 0 THEN r.expires_in ELSE 0)]]
                           ELSE world
               /\ acc' = [acc EXCEPT !.token = r.access_token]
               /\ conn_pc' = "naver.orders"
               /\ UNCHANGED conn_exit
  /\ UNCHANGED << main_vars, events, profile_i, raw, conn_out >>

\* the loop that leaves out a page after every page with hasNext
NaverOrders_skip ==
  /\ conn_pc = "naver.orders"
  /\ \E r \in ProductOrdersResponses(acc.page) :
       LET asked == Append(trace, Request("product_orders", "naver", r))
       IN IF r.status # 200
          THEN /\ trace' = Append(asked, Request("raised", "naver", [kind |-> "API ERROR"]))
               /\ ConnRaise
               /\ UNCHANGED acc
          ELSE /\ trace' = asked
               /\ acc' = [add_product_orders(r.contents, acc) EXCEPT
                            !.page = IF r.hasNext THEN @ + 2 ELSE @]
               /\ conn_pc' = IF r.hasNext THEN "naver.orders" ELSE "naver.print"
               /\ UNCHANGED conn_exit
  /\ UNCHANGED << main_vars, events, world, profile_i, raw, conn_out >>

\* iter_product_orders: one page is requested and its rows are added up; the
\* loop ends on a page without hasNext
NaverOrders ==
  /\ conn_pc = "naver.orders"
  /\ \E r \in ProductOrdersResponses(acc.page) :
       LET asked == Append(trace, Request("product_orders", "naver", r))
       IN IF r.status # 200
          THEN /\ trace' = Append(asked, Request("raised", "naver", [kind |-> "API ERROR"]))
               /\ ConnRaise
               /\ UNCHANGED acc
          ELSE /\ trace' = asked
               /\ acc' = [add_product_orders(r.contents, acc) EXCEPT
                            !.page = IF r.hasNext THEN @ + 1 ELSE @]
               /\ conn_pc' = IF r.hasNext THEN "naver.orders" ELSE "naver.print"
               /\ UNCHANGED conn_exit
  /\ UNCHANGED << main_vars, events, world, profile_i, raw, conn_out >>

\* the dict get_daily_metrics returns
naver_metrics(date, a) ==
  Obj( ("status" :> Str("ok")) @@ ("source" :> Str("naver")) @@ ("date" :> Str(date)) @@
       ("sales" :> Num(a.sales)) @@ ("orders" :> Num(Cardinality(a.order_ids))) @@
       ("product_order_count" :> Num(a.count)) )

\* main() --json: print(json.dumps(result)); return
NaverPrint ==
  /\ conn_pc = "naver.print"
  /\ conn_out' = Append(conn_out, JsonLine(naver_metrics(today, acc)))
  /\ conn_exit' = << 0 >>
  /\ conn_pc' = "exit"
  /\ UNCHANGED << main_vars, events, world, profile_i, trace, raw, acc >>

(***************************************************************************)
(* coupang_current.py                                                      *)
(*                                                                         *)
(* An export is the sequence of its rows; a row holds the cells of columns *)
(* C (product name), O (gross amount), P (quantity), Q (cancelled amount)  *)
(* and R (cancelled quantity). A numeric cell is None, a number or a text  *)
(* (its characters); a product name is the sequence of its syllables.      *)
(***************************************************************************)
\* the first match of -?\d+ in a text: << >> or << its value >>
RECURSIVE digits_value(_, _)
digits_value(chars, n) ==
  IF chars = << >> \/ Head(chars) \notin Digits THEN n
  ELSE digits_value(Tail(chars), n * 10 + DigitValue(Head(chars)))

RECURSIVE first_signed_int(_)
first_signed_int(chars) ==
  IF chars = << >> THEN << >>
  ELSE IF Head(chars) \in Digits THEN << digits_value(chars, 0) >>
       ELSE IF Head(chars) = "-" /\ Len(chars) >= 2 /\ chars[2] \in Digits
            THEN << 0 - digits_value(Tail(chars), 0) >>
            ELSE first_signed_int(Tail(chars))

normalize_int(val) ==
  CASE val.t = "null" -> 0
    [] val.t = "num"  -> val.v
    [] val.t = "str"  ->
         LET nums == first_signed_int(SelectSeq(val.v, LAMBDA c : c # ","))
         IN IF nums # << >> THEN nums[1] ELSE 0
    [] OTHER -> 0

ExportRow(name, gross, qty, cancel_amount, cancel_qty) ==
  [C |-> name, O |-> gross, P |-> qty, Q |-> cancel_amount, R |-> cancel_qty]

ProductAgg(sales, qty) == [sales |-> sales, qty |-> qty]

\* the loop of aggregate_from_excel from row r on: agg maps a product name to
\* its ProductAgg
RECURSIVE aggregate_rows(_, _, _)
aggregate_rows(ws, r, agg) ==
  IF r > Len(ws) THEN agg
  ELSE LET row == ws[r]
       IN IF row.C.t = "null" \/ row.C.v = << >> THEN aggregate_rows(ws, r + 1, agg)
          ELSE LET name == row.C.v
                   net_sales == normalize_int(row.O) + normalize_int(row.Q)
                   net_qty == normalize_int(row.P) + normalize_int(row.R)
                   old == IF name \in DOMAIN agg THEN agg[name] ELSE ProductAgg(0, 0)
                   new == ProductAgg(old.sales + net_sales, old.qty + net_qty)
               IN aggregate_rows(ws, r + 1,
                    [ n \in DOMAIN agg \cup { name } |-> IF n = name THEN new ELSE agg[n] ])

\* aggregate_from_excel: row 1 is skipped when C1, O1 or P1 holds a text
aggregate_from_excel(ws) ==
  LET start_row == IF ws # << >> /\ \E col \in { "C", "O", "P" } : ws[1][col].t = "str"
                   THEN 2 ELSE 1
  IN aggregate_rows(ws, start_row, << >>)

\* brand_map in its order: the brand and its keywords
brand_map ==
  << [brand |-> "budamjero", keywords |-> { << "bu", "dam" >>, << "bu", "dam", "je", "ro" >> }],
     [brand |-> "ppadi",     keywords |-> { << "ppa", "di" >> }],
     [brand |-> "gijil jelly",
      keywords |-> { << "gi", "jil" >>, << "jel", "ri" >>, << "nyu", "teon" >>,
                     << "nyu", "teon", "jel", "ri" >> }] >>

\* the last brand of brand_map with a keyword in the name
BrandOf_last(name) ==
  LET IsInfix(k) == \E i \in 0..(Len(name) - Len(k)) : SubSeq(name, i + 1, i + Len(k)) = k
      M == { b \in 1..Len(brand_map) : \E k \in brand_map[b].keywords : IsInfix(k) }
  IN IF M = {} THEN 0 ELSE CHOOSE b \in M : \A c \in M : b >= c

\* the first brand of brand_map with a keyword in the name, 0 when none has
BrandOf(name) ==
  LET \* k in name
      IsInfix(k) == \E i \in 0..(Len(name) - Len(k)) : SubSeq(name, i + 1, i + Len(k)) = k
      M == { b \in 1..Len(brand_map) : \E k \in brand_map[b].keywords : IsInfix(k) }
  IN IF M = {} THEN 0 ELSE CHOOSE b \in M : \A c \in M : b <= c

RECURSIVE sum_products(_, _)
sum_products(names, agg) ==
  IF names = {} THEN ProductAgg(0, 0)
  ELSE LET n == CHOOSE x \in names : TRUE
           rest == sum_products(names \ { n }, agg)
       IN ProductAgg(agg[n].sales + rest.sales, agg[n].qty + rest.qty)

\* aggregate_by_brand: brand -> ProductAgg
aggregate_by_brand(product_agg) ==
  [ brand \in { brand_map[b].brand : b \in 1..Len(brand_map) } |->
      sum_products({ n \in DOMAIN product_agg : /\ BrandOf(n) > 0
                                                /\ brand_map[BrandOf(n)].brand = brand },
                   product_agg) ]

\* the object main() prints under --json
coupang_main_out(date, brand_agg) ==
  LET entry(brand) == Obj( ("sales" :> Num(brand_agg[brand].sales)) @@
                           ("orders" :> Num(brand_agg[brand].qty)) )
  IN Obj( ("status" :> Str("ok")) @@ ("source" :> Str("coupang")) @@ ("date" :> Str(date)) @@
          ("mapped" :> Obj( ("burdenzero" :> entry("budamjero")) @@
                            ("brainology" :> entry("gijil jelly")) @@
                            ("ppadi" :> entry("ppadi")) )) )



\* line items: a sale, the cancellation of an earlier day's sale, cells
\* holding texts, a product of the third brand, a product whose name holds
\* keywords of two brands, a product of no brand, and a row without a name
DataRows ==
  { ExportRow(Str(<< "bu", "dam", "je", "ro", "A" >>), Num(20000), Num(2), Num(0), Num(0)),
    ExportRow(Str(<< "bu", "dam", "je", "ro", "A" >>), Num(0), Num(0), Num(-10000), Num(-1)),
    ExportRow(Str(<< "nyu", "teon", "jel", "ri" >>), Str(<< "1", ",", "5", "0", "0" >>), Str(<< "3" >>), Null,
              Str(<< "-", "5" >>)),
    ExportRow(Str(<< "ppa", "di" >>), Num(7000), Num(1), Null, Null),
    ExportRow(Str(<< "bu", "dam", " ", "jel", "ri" >>), Num(600), Num(1), Num(0), Num(0)),
    ExportRow(Str(<< "gift" >>), Num(900), Num(1), Num(0), Num(0)),
    ExportRow(Null, Num(100), Num(1), Num(0), Num(0)) }

\* exports with and without a header row, and an export with a header row
\* and four products: one of each brand and one of none
Exports ==
  { << ExportRow(Str(<< "name" >>), Str(<< "w" >>), Str(<< "w" >>), Str(<< "w" >>), Str(<< "w" >>)) >> \o l : l \in SeqsUpTo(DataRows, MaxRows) }
  \cup SeqsUpTo(DataRows, MaxRows)
  \cup { << ExportRow(Str(<< "name" >>), Str(<< "w" >>), Str(<< "w" >>), Str(<< "w" >>), Str(<< "w" >>)),
             ExportRow(Str(<< "bu", "dam", "je", "ro", " ", "3", "0", "po" >>), Num(1000), Num(1), Num(0), Num(0)),
             ExportRow(Str(<< "ppa", "di", " ", "seu", "tik" >>), Num(200), Num(2), Num(0), Num(0)),
             ExportRow(Str(<< "nyu", "teon", "jel", "ri", " ", "ki", "jeu" >>), Num(30), Num(3), Num(0), Num(0)),
             ExportRow(Str(<< "jeong", "che", "bul", "myeong", " ", "sang", "pum" >>), Num(4), Num(4), Num(0), Num(0)) >> }

\* main() up to the sales page: the browser is launched, then login_coupang
\* runs inside the try: it reads its settings before it navigates, and
\* without a form it saves a snapshot and raises. A launch that raises is
\* outside the try and leaves nothing open
CoupangLogin ==
  /\ conn_pc = "coupang.start"
  /\ \E outcome \in { "launch raises", "setting missing", "form not found", "submitted" } :
       CASE outcome = "launch raises" ->
              /\ events' = << "launch.raise", "error.launch" >>
              /\ ConnRaise /\ UNCHANGED acc
         [] outcome = "setting missing" ->
              BrowserRaise(<< "launch" >>) /\ UNCHANGED acc
         [] outcome = "form not found" ->
              /\ \E captured \in BOOLEAN :
                   BrowserRaise(<< "launch", "login.goto",
                                   IF captured THEN "save_debug" ELSE "save_debug.raise" >>)
              /\ UNCHANGED acc
         [] outcome = "submitted" ->
              /\ events' = << "launch", "login.goto", "login.submit" >>
              /\ acc' = [attempts |-> 0]
              /\ conn_pc' = "coupang.open"
              /\ UNCHANGED conn_exit
  /\ UNCHANGED << main_vars, world, profile_i, trace, raw, conn_out >>

\* one round of the loop of open_sales_url_with_retry(page, url, retries=1),
\* before the first download and again after a failed one: attempts += 1;
\* page.goto; the wait for MAIN_SELECTOR returns, or times out and the loop
\* goes round unless attempts > 1 + retries
CoupangOpen ==
  /\ conn_pc \in { "coupang.open", "coupang.reopen" }
  /\ \E outcome \in { "shown", "timeout", "goto raises" } :
       LET retries == 1
           attempts == acc.attempts + 1
           log == Append(events, "sales.goto")
       IN /\ acc' = [attempts |-> attempts]
          /\ CASE outcome = "shown" ->
                    /\ events' = log
                    /\ conn_pc' = IF conn_pc = "coupang.open" THEN "coupang.download"
                                  ELSE "coupang.redownload"
                    /\ UNCHANGED conn_exit
               [] outcome = "timeout" ->
                    IF attempts > 1 + retries
                    THEN BrowserRaise(Append(log, "sales.timeout"))
                    ELSE /\ events' = Append(log, "sales.timeout")
                         /\ UNCHANGED << conn_pc, conn_exit >>
               [] outcome = "goto raises" ->
                    BrowserRaise(Append(log, "sales.goto.raise"))
  /\ UNCHANGED << main_vars, world, profile_i, trace, raw, conn_out >>

\* the download that is tried again on the page it failed on
CoupangDownload_samepage ==
  /\ conn_pc \in { "coupang.download", "coupang.redownload" }
  /\ \E downloaded \in BOOLEAN :
       LET log == Append(events, "download")
       IN IF downloaded
          THEN /\ world' \in Exports
               /\ events' = log
               /\ conn_pc' = "coupang.aggregate"
               /\ UNCHANGED << acc, conn_exit >>
          ELSE IF conn_pc = "coupang.download"
               THEN /\ events' = Append(log, "download.raise")
                    /\ acc' = [attempts |-> 0]
                    /\ conn_pc' = "coupang.redownload"
                    /\ UNCHANGED << world, conn_exit >>
               ELSE /\ BrowserRaise(Append(log, "download.raise"))
                    /\ UNCHANGED << world, acc >>
  /\ UNCHANGED << main_vars, profile_i, trace, raw, conn_out >>

\* download_product_excel_via_dropdown, first or second call: an export is
\* saved, or the call raises; after the first failure main() goes back to
\* open_sales_url_with_retry, after the second it raises
CoupangDownload ==
  /\ conn_pc \in { "coupang.download", "coupang.redownload" }
  /\ \E downloaded \in BOOLEAN :
       LET log == Append(events, "download")
       IN IF downloaded
          THEN /\ world' \in Exports
               /\ events' = log
               /\ conn_pc' = "coupang.aggregate"
               /\ UNCHANGED << acc, conn_exit >>
          ELSE IF conn_pc = "coupang.download"
               THEN /\ events' = Append(log, "download.raise")
                    /\ acc' = [attempts |-> 0]
                    /\ conn_pc' = "coupang.reopen"
                    /\ UNCHANGED << world, conn_exit >>
               ELSE /\ BrowserRaise(Append(log, "download.raise"))
                    /\ UNCHANGED << world, acc >>
  /\ UNCHANGED << main_vars, profile_i, trace, raw, conn_out >>

\* product_agg, ... = aggregate_from_excel(excel_path);
\* brand_agg = aggregate_by_brand(product_agg)
CoupangAggregate ==
  /\ conn_pc = "coupang.aggregate"
  /\ acc' = aggregate_by_brand(aggregate_from_excel(world))
  /\ conn_pc' = "coupang.print"
  /\ UNCHANGED << main_vars, events, world, profile_i, trace, raw, conn_out, conn_exit >>

\* if args.json: print(json.dumps(payload)); then the finally closes the session
CoupangPrint ==
  /\ conn_pc = "coupang.print"
  /\ conn_out' = Append(conn_out, JsonLine(coupang_main_out(today, acc)))
  /\ events' = events \o << "context.close", "browser.close" >>
  /\ conn_exit' = << 0 >>
  /\ conn_pc' = "exit"
  /\ UNCHANGED << main_vars, world, profile_i, trace, raw, acc >>

(***************************************************************************)
(* The four connectors, each run as the orchestrator runs it               *)
(***************************************************************************)
InitConnectors ==
  /\ MainIdle
  /\ conn_pc \in { "c24.open", "coupang.start", "naver.start", "meta.start" }
  /\ world = << >>
  /\ profile_i = 1
  /\ trace = << >>
  /\ raw = << >>
  /\ acc = << >>
  /\ conn_out = << >>
  /\ conn_exit = << >>
  /\ events = << >>

NextConnectors ==
  \/ Cafe24Open
  \/ PrimaryWait
  \/ PrimaryRoleCell
  \/ PrimaryMarkupScan
  \/ SecondaryWait
  \/ SecondaryHeaderCell
  \/ SecondaryHeaderTable
  \/ Cafe24Parse
  \/ Cafe24Print
  \/ CoupangLogin
  \/ CoupangOpen
  \/ CoupangDownload
  \/ CoupangAggregate
  \/ CoupangPrint
  \/ NaverStart
  \/ NaverToken
  \/ NaverOrders
  \/ NaverPrint
  \/ MetaStart
  \/ MetaDebugToken
  \/ MetaPermissions
  \/ MetaAdAccounts
  \/ MetaInsights
  \/ MetaPrint

SpecConnectors == InitConnectors /\ [][NextConnectors]_vars

(***************************************************************************)
(* parse_two_numbers on its own: get_current_metrics of the last profile   *)
(* at `sales, orders = parse_two_numbers(raw)`, for every text of up to    *)
(* MaxTextLen characters, and main() to the end of the process             *)
(***************************************************************************)

InitParse ==
  /\ MainIdle
  /\ conn_pc = "c24.parse"
  /\ world = << >>
  /\ profile_i = Len(PROFILES)
  /\ trace = << >>
  /\ raw \in SeqsUpTo({ "0", "1", ",", " ", "w" }, MaxTextLen)
  /\ acc = ("brainology" :> cafe24_metrics(today, 120000, 4, "brainology"))
  /\ conn_out = << TextLine >>
  /\ conn_exit = << >>
  /\ events = << "launch", "login.goto", "login.submit", "dashboard.goto" >>

NextParse ==
  \/ Cafe24Parse
  \/ Cafe24Print

SpecParse == InitParse /\ [][NextParse]_vars

(***************************************************************************)
(* naver_current.py on its own, every step taken in the end: the process   *)
(* is not stopped from outside                                             *)
(***************************************************************************)
InitNaver ==
  /\ MainIdle
  /\ conn_pc = "naver.start"
  /\ world = << >>
  /\ profile_i = 1
  /\ trace = << >>
  /\ raw = << >>
  /\ acc = << >>
  /\ conn_out = << >>
  /\ conn_exit = << >>
  /\ events = << >>

NextNaver ==
  \/ NaverStart
  \/ NaverToken
  \/ NaverOrders
  \/ NaverPrint

\* every step of the process changes where it is or adds to its trace
SpecNaver == InitNaver /\ [][NextNaver]_vars /\ WF_<< conn_pc, Len(trace) >>(NextNaver)

(***************************************************************************)
(* parse_purchases_from_actions on its own: the last profile's insights    *)
(* request of meta_ads_current.py is answered one row of today holding     *)
(* every list of at most MaxActions action records                         *)
(***************************************************************************)
InitPurchases ==
  /\ MainIdle
  /\ conn_pc = "meta.insights"
  /\ \E actions \in SeqsUpTo({ Action(at, value) :
                                 at \in { "purchase", "app_custom_event.purchase", "link_click" },
                                 value \in { Null, Dec(27), Dec(-30), [t |-> "words"] } },
                              MaxActions) :
       world = [insights |-> [status |-> 200,
                              rows |-> << InsightsRow(today, 1000, actions) >>]]
  /\ profile_i = Len(PROFILES)
  /\ trace = << >>
  /\ raw = << >>
  /\ acc = ("brainology" :> Obj( ("date" :> Str(today)) @@ ("spend" :> Num(100000)) @@
                                  ("purchases" :> Num(5)) ))
  /\ conn_out = << TextLine >>
  /\ conn_exit = << >>
  /\ events = << >>

NextPurchases ==
  \/ MetaInsights
  \/ MetaPrint

SpecPurchases == InitPurchases /\ [][NextPurchases]_vars

(***************************************************************************)
(* build_row_payload and compute_roas_cpa_for_brand on result objects that *)
(* lack data: main() from the first find_or_create_today_row to the alert, *)
(* for every combination of the shapes below                               *)
(***************************************************************************)
\* result objects of one source with the fields f1, f2: complete, without
\* "mapped" (figures at the top level), "mapped" null, "mapped" empty, one
\* brand's entry absent, one brand's entry null, fields absent or null
Shapes(f1, f2) ==
  LET full == Entry2(f1, 1500, f2, 2)
      other == Entry2(f1, 900, f2, 1)
  IN { Obj( ("status" :> Str("ok")) @@
            ("mapped" :> Obj(("burdenzero" :> full) @@ ("brainology" :> other))) ),
       Obj( ("status" :> Str("ok")) @@ (f1 :> Num(700)) @@ (f2 :> Num(3)) ),
       Obj( ("status" :> Str("ok")) @@ ("mapped" :> Null) ),
       Obj( ("status" :> Str("ok")) @@ ("mapped" :> EmptyObj) ),
       Obj( ("status" :> Str("ok")) @@ ("mapped" :> Obj(("brainology" :> other))) ),
       Obj( ("status" :> Str("ok")) @@
            ("mapped" :> Obj(("burdenzero" :> Null) @@ ("brainology" :> other))) ),
       Obj( ("status" :> Str("ok")) @@
            ("mapped" :> Obj( ("burdenzero" :> Obj((f1 :> Num(1500)))) @@
                              ("brainology" :> Obj((f1 :> Null) @@ (f2 :> Num(1)))) )) ) }

InitDefaults ==
  /\ sheets = [n \in SheetNames |-> << >>]
  /\ pc = "find"
  /\ runs = 1
  /\ now = T(14, 0, 0, 0)
  /\ today = "2024-05-01"
  /\ procs = Scenarios[1]
  /\ picked = pick_slot(now)
  /\ ymd = today
  /\ cafe24_res \in Shapes("sales", "orders")
  /\ coupang_res \in Shapes("sales", "orders")
  /\ naver_res \in Shapes("sales", "orders")
  /\ meta_res \in Shapes("spend", "purchases")
  /\ brand_i = 1
  /\ row_idx = 0
  /\ error = ""
  /\ calls = << >>
  /\ alerts = << >>
  /\ sheets0 = sheets
  /\ ConnOff

NextDefaults ==
  \/ FindRow
  \/ AppendRow
  \/ RereadRow
  \/ UpdateRow
  \/ SlackPost

SpecDefaults == InitDefaults /\ [][NextDefaults]_vars

(***************************************************************************)
(* The writes and the alert of one run, with spreadsheet calls that can     *)
(* fail: main() from get_sheets_service() on, for sheets that are empty,    *)
(* hold a header, or hold today's row already                               *)
(***************************************************************************)
\* a spreadsheet call whose failure reaches no handler, so that main() goes on
\* to the alert
SheetsFail_swallowed ==
  /\ pc \in { "find", "append", "reread", "update" }
  /\ calls' = Append(calls, Call("sheets.fail", CurSheet))
  /\ pc' = "slack"
  /\ error' = "SHEETS"
  /\ UNCHANGED << sheets, runs, env, picked, ymd, results, brand_i, row_idx,
                  alerts, sheets0 >>
  /\ UNCHANGED conn_vars

\* the pending values().get, values().append or values().update raises at
\* .execute(): neither the helper nor main() catches it
SheetsFail ==
  /\ pc \in { "find", "append", "reread", "update" }
  /\ calls' = Append(calls, Call("sheets.fail", CurSheet))
  /\ pc' = "failed"
  /\ error' = "SHEETS"
  /\ UNCHANGED << sheets, runs, env, picked, ymd, results, brand_i, row_idx,
                  alerts, sheets0 >>
  /\ UNCHANGED conn_vars

InitUpsert ==
  /\ sheets \in [SheetNames -> { << >>, << (1 :> "date") >>,
                                 << (1 :> "date"), (1 :> "2024-05-01") >> }]
  /\ pc = "svc"
  /\ runs = 1
  /\ now \in { T(9, 0, 0, 0), T(14, 0, 0, 0) }
  /\ today = "2024-05-01"
  /\ procs = Scenarios[1]
  /\ picked = pick_slot(now)
  /\ ymd = today
  /\ cafe24_res = Cafe24Out(120000, 4, 300000, 10)
  /\ coupang_res \in { CoupangOut(200000, 8, 90000, 3, 40000, 2),
                       CoupangOut(-1000, 0, 0, 0, 0, 0) }
  /\ naver_res = NaverMappedOut(150000, 6, 70000, 1)
  /\ meta_res = MetaOut(100000, 5, 50000, 2)
  /\ brand_i = 1
  /\ row_idx = 0
  /\ error = ""
  /\ calls = << >>
  /\ alerts = << >>
  /\ sheets0 = sheets
  /\ ConnOff

NextUpsert ==
  \/ GetSheetsService
  \/ FindRow
  \/ AppendRow
  \/ RereadRow
  \/ UpdateRow
  \/ SheetsFail
  \/ SlackPost

SpecUpsert == InitUpsert /\ [][NextUpsert]_vars

(***************************************************************************)
(* run_script_json on its own: main() at its first connector call, for     *)
(* every exit status and every output of up to MaxLines lines              *)
(***************************************************************************)

InitRsj ==
  /\ sheets = [n \in SheetNames |-> << >>]
  /\ pc = "cafe24"
  /\ runs = 1
  /\ now = T(14, 0, 0, 0)
  /\ today = "2024-05-01"
  /\ \E rc \in {0, 1}, out \in SeqsUpTo({ TextLine, BlankLine, JsonLine(Cafe24Out(120000, 4, 300000, 10)), JsonLine(EmptyObj) }, MaxLines) :
       procs = Procs([returncode |-> rc, stdout |-> out], Silent, Silent, Silent)
  /\ picked = pick_slot(now)
  /\ ymd = today
  /\ cafe24_res = Null /\ coupang_res = Null /\ naver_res = Null /\ meta_res = Null
  /\ brand_i = 1
  /\ row_idx = 0
  /\ error = ""
  /\ calls = << >>
  /\ alerts = << >>
  /\ sheets0 = sheets
  /\ ConnOff

NextRsj == RunCafe24

SpecRsj == InitRsj /\ [][NextRsj]_vars

(***************************************************************************)
(* Vocabulary of the properties                                            *)
(***************************************************************************)
\* the slots whose center, on the day of dt, is within the tolerance of dt
MatchingSlots(dt) ==
  { i \in 1..Len(SLOTS) :
      LET center_ms == (SLOTS[i].hh * 60 + SLOTS[i].mm) * 60000
          dt_ms == dt.hour * 3600000 + dt.minute * 60000 + dt.second * 1000 + dt.ms
      IN /\ dt_ms - center_ms <= SLOT_TOLERANCE_MINUTES * 60000
         /\ center_ms - dt_ms <= SLOT_TOLERANCE_MINUTES * 60000 }

\* the slot main() is writing: its position in SLOTS
PickedIndex == CHOOSE i \in 1..Len(SLOTS) : SLOTS[i].label = picked[1].label

\* the 7 columns of slot i
SlotColumns(i) == col_to_index(SLOTS[i].col) .. (col_to_index(SLOTS[i].col) + 6)

\* the rows of a sheet whose date cell is d
RowsOf(sheet, d) == { i \in 1..Len(sheet) : 1 \in DOMAIN sheet[i] /\ sheet[i][1] = d }

\* the cells of slot i on a row, left to right (a cell with no value reads "")
SlotCells(row, i) ==
  [ j \in 1..7 |->
      LET c == col_to_index(SLOTS[i].col) + j - 1
      IN IF c \in DOMAIN row THEN row[c] ELSE "" ]

\* the figure a result object carries for a brand's field, 0 when it carries none
Reported(res, brand, field) ==
  IF /\ res.t = "obj"
     /\ "mapped" \in DOMAIN res.v
     /\ res.v["mapped"].t = "obj"
     /\ brand \in DOMAIN res.v["mapped"].v
     /\ res.v["mapped"].v[brand].t = "obj"
     /\ field \in DOMAIN res.v["mapped"].v[brand].v
     /\ res.v["mapped"].v[brand].v[field].t = "num"
  THEN res.v["mapped"].v[brand].v[field].v
  ELSE 0

\* a connector process fails: non-zero exit, nothing printed, or a last printed
\* line that is not structured data
ProcessFails(p) ==
  \/ p.returncode # 0
  \/ \A i \in 1..Len(p.stdout) : p.stdout[i].k = "blank"
  \/ \E i \in 1..Len(p.stdout) :
       /\ p.stdout[i].k = "text"
       /\ \A j \in (i + 1)..Len(p.stdout) : p.stdout[j].k = "blank"

\* the object a connector process reports, Null when it fails
ReportOf(p) ==
  IF ProcessFails(p) THEN Null
  ELSE LET last == CHOOSE i \in 1..Len(p.stdout) :
                     /\ p.stdout[i].k = "json"
                     /\ \A j \in (i + 1)..Len(p.stdout) : p.stdout[j].k = "blank"
       IN p.stdout[last].v

\* the scripts whose process fails in the current run
FailingScripts == { k \in 1..Len(SCRIPTS) : ProcessFails(procs[SCRIPTS[k]]) }

\* the run has a slot and has started on the connectors
RunHasSlot == runs > 0 /\ picked # << >>

\* the brands whose row the current run has already written
WrittenBrands ==
  IF ~ RunHasSlot THEN {}
  ELSE IF pc \in {"slack", "done"} \/ (pc = "failed" /\ error = "SLACK WEBHOOK FAIL")
       THEN 1..Len(BRAND_SHEETS)
       ELSE IF pc \in {"find", "append", "reread", "update"} THEN 1..(brand_i - 1)
            ELSE {}

(***************************************************************************)
(* C6  pick_slot is total and deterministic: it returns nothing or one     *)
(* slot; the slot is the first of SLOTS whose center is within the         *)
(* tolerance of the timestamp, so the midpoint 11:00 between the centers   *)
(* 10:00 and 12:00 resolves to "10:00"; it returns nothing exactly when no *)
(* center is within the tolerance.                                         *)
(***************************************************************************)
C6_PickSlotFirstMatch ==
  pc # "main" =>
    LET M == MatchingSlots(now)
    IN /\ Len(picked) <= 1
       /\ (M = {}) <=> (picked = << >>)
       /\ M # {} =>
            LET first == CHOOSE i \in M : \A j \in M : i <= j
            IN picked = << [label |-> SLOTS[first].label, col |-> SLOTS[first].col] >>
       /\ now = T(11, 0, 0, 0) => picked[1].label = "10:00"

C6_Witness ==
  /\ pc # "main"
  /\ now = T(11, 0, 0, 0)
  /\ Cardinality(MatchingSlots(now)) = 2
  /\ picked # << >>

(***************************************************************************)
(* C7  The slot windows do not overlap (the tolerance is at most half the  *)
(* gap between adjacent centers): no timestamp for which pick_slot has     *)
(* answered is within the tolerance of two different slots.                *)
(***************************************************************************)
C7_WindowsDisjoint ==
  pc # "main" => \A i, j \in MatchingSlots(now) : i = j

(***************************************************************************)
(* C8  When no slot matches the current time the run is a no-op that ends  *)
(* without error: no connector is run, the spreadsheet is neither read nor *)
(* written and no alert is sent.                                           *)
(***************************************************************************)
C8_NoSlotNoOp ==
  (runs > 0 /\ pc # "main" /\ MatchingSlots(now) = {}) =>
    /\ pc = "skipped"
    /\ error = ""
    /\ calls = << >>
    /\ alerts = << >>
    /\ sheets = sheets0

C8_Witness ==
  /\ pc = "skipped"
  /\ runs = 2
  /\ now = T(23, 10, 0, 1)
  /\ \E n \in SheetNames : Len(sheets[n]) >= 2

(***************************************************************************)
(* compute_roas_cpa_for_brand against its specification, with the cpa the  *)
(* worked example is said to give                                          *)
(***************************************************************************)
KpiAsSpecified(k, brand) ==
  LET revenue == Reported(cafe24_res, brand, "sales") + Reported(coupang_res, brand, "sales")
                   + Reported(naver_res, brand, "sales")
      purchases == Reported(cafe24_res, brand, "orders") + Reported(coupang_res, brand, "orders")
                     + Reported(naver_res, brand, "orders")
      spend == Reported(meta_res, brand, "spend")
  IN /\ k.revenue = revenue
     /\ k.purchases = purchases
     /\ k.spend = spend
     /\ k.roas.den > 0 /\ k.cpa.den > 0
     /\ IF spend > 0 THEN k.roas.num * spend = revenue * k.roas.den ELSE k.roas = Zero
     /\ IF purchases > 0 THEN k.cpa.num * purchases = spend * k.cpa.den ELSE k.cpa = Zero

\* the worked example: spend 100000, sales 300000/200000/150000, orders 10/8/6
IsWorkedExample ==
  /\ cafe24_res = Cafe24Out(120000, 4, 300000, 10)
  /\ coupang_res = CoupangOut(200000, 8, 90000, 3, 40000, 2)
  /\ naver_res = NaverMappedOut(150000, 6, 70000, 1)
  /\ meta_res = MetaOut(100000, 5, 50000, 2)

KpiClaim(example_cpa) ==
  \A a \in 1..Len(alerts) :
    /\ KpiAsSpecified(alerts[a].bz, "burdenzero")
    /\ KpiAsSpecified(alerts[a].bio, "brainology")
    /\ IsWorkedExample
       => alerts[a].bz = [ spend |-> 100000, purchases |-> 24, revenue |-> 650000,
                           roas |-> [num |-> 13, den |-> 2],
                           cpa |-> example_cpa ]
    /\ (alerts[a].bz.spend = 0 /\ alerts[a].bz.revenue = 500) => alerts[a].bz.roas = Zero
    /\ (alerts[a].bio.purchases = 0 /\ alerts[a].bio.spend = 500) => alerts[a].bio.cpa = Zero

(***************************************************************************)
(* C9 (as stated)  compute_roas_cpa_for_brand: revenue is the brand's      *)
(* sales summed over the three sales sources, purchases the brand's orders *)
(* summed over the same three (the paid-media purchases are left out),     *)
(* roas is revenue / spend when spend > 0 and 0 otherwise, cpa is spend /  *)
(* purchases when purchases > 0 and 0 otherwise; spend 100000 with sales   *)
(* 300000, 200000, 150000 and orders 10, 8, 6 gives revenue 650000,        *)
(* purchases 24, roas 6.5 and cpa 20000; spend 0 with revenue 500 gives    *)
(* roas 0.                                                                 *)
(***************************************************************************)
C9_AsStated == KpiClaim([num |-> 20000, den |-> 1])

(***************************************************************************)
(* C9 (amended)  The same formulas; the worked example gives revenue       *)
(* 650000, purchases 24, roas 6.5 and cpa 100000 / 24 = 12500 / 3 (about   *)
(* 4166.67): 20000 is spend over the 5 paid-media purchases, which the     *)
(* formula leaves out.                                                     *)
(***************************************************************************)
C9_KpiFormulas == KpiClaim([num |-> 12500, den |-> 3])

C9_ZeroGuardReached ==
  /\ Len(alerts) = 1
  /\ alerts[1].bz.spend = 0 /\ alerts[1].bz.revenue = 500
  /\ alerts[1].bio.purchases = 0 /\ alerts[1].bio.spend = 500
  /\ Reported(meta_res, "burdenzero", "purchases") = 0

\* the worked example has been through compute_roas_cpa_for_brand
C9_Witness == Len(alerts) = 1 /\ IsWorkedExample
(***************************************************************************)
(* C10  For each brand the 7 values written from the slot's start column   *)
(* are, in order, paid-media spend, site sales, site orders, marketplace   *)
(* sales, marketplace orders, storefront sales, storefront orders of that  *)
(* brand's entries; with the scenario's figures, slot 14:00 and date       *)
(* 2024-05-01 the row's columns P:V are                                    *)
(* [100000, 300000, 10, 200000, 8, 150000, 6].                             *)
(***************************************************************************)
ExpectedCellsOf(cafe24, coupang, naver, meta, brand) ==
  << Reported(meta, brand, "spend"),
     Reported(cafe24, brand, "sales"), Reported(cafe24, brand, "orders"),
     Reported(coupang, brand, "sales"), Reported(coupang, brand, "orders"),
     Reported(naver, brand, "sales"), Reported(naver, brand, "orders") >>

ExpectedCells(brand) == ExpectedCellsOf(cafe24_res, coupang_res, naver_res, meta_res, brand)

C10_RowPayloadOrder ==
  \A b \in WrittenBrands :
    LET sheet == sheets[BRAND_SHEETS[b].sheet]
        brand == BRAND_SHEETS[b].brand
    IN /\ RowsOf(sheet, ymd) # {}
       /\ \A r \in RowsOf(sheet, ymd) : SlotCells(sheet[r], PickedIndex) = ExpectedCells(brand)
       /\ ( /\ brand = "burdenzero" /\ picked[1].label = "14:00" /\ ymd = "2024-05-01"
            /\ procs = Scenarios[1] )
          => \A r \in RowsOf(sheet, ymd) :
               [ c \in 16..22 |-> sheet[r][c] ] =
                 [ c \in 16..22 |-> << 100000, 300000, 10, 200000, 8, 150000, 6 >>[c - 15] ]

C10_Witness ==
  /\ pc = "done"
  /\ procs = Scenarios[1]
  /\ picked # << >> /\ picked[1].label = "14:00"
  /\ ymd = "2024-05-01"
  /\ \E r \in RowsOf(sheets["burdenzero_now"], ymd) :
       /\ sheets["burdenzero_now"][r][16] = 100000
       /\ sheets["burdenzero_now"][r][22] = 6

(***************************************************************************)
(* C1  The per-brand upsert performed twice in succession with the same    *)
(* sheet, date, slot and 7 values leaves the sheet as the first call left  *)
(* it: same row index, same 7 cells, no further row. The first call is the *)
(* one the run has just made on the sheet it found (whatever rows, date,   *)
(* slot and values the run has), the second is made on its result.         *)
(***************************************************************************)
C1_UpsertIdempotent ==
  \A b \in WrittenBrands :
    LET n == BRAND_SHEETS[b].sheet
        v == ExpectedCells(BRAND_SHEETS[b].brand)
        first == upsert(sheets0[n], ymd, picked[1].col, v)
        second == upsert(sheets[n], ymd, picked[1].col, v)
    IN /\ sheets[n] = first.sheet
       /\ second.sheet = first.sheet
       /\ second.row = first.row
       /\ Len(second.sheet) = Len(first.sheet)
       /\ SlotCells(second.sheet[second.row], PickedIndex) = v
       /\ RowsOf(second.sheet, ymd) = { first.row }

\* a second run has written, for the same date and slot, the values the rows held
C1_Witness ==
  /\ runs = 2
  /\ pc = "slack"
  /\ sheets = sheets0
  /\ \A n \in SheetNames : RowsOf(sheets[n], ymd) # {}
  /\ ExpectedCells("burdenzero") # << 0, 0, 0, 0, 0, 0, 0 >>

(***************************************************************************)
(* C2  Writing a slot on a date's row changes only that slot's 7 cells:    *)
(* the ranges of the 7 slots are pairwise disjoint and leave out column A, *)
(* and the write leaves every cell of every other slot on the row, the     *)
(* date cell and every other row as they were.                             *)
(***************************************************************************)
CellOf(sheet, r, c) ==
  IF r <= Len(sheet) /\ c \in DOMAIN sheet[r] THEN << sheet[r][c] >> ELSE << >>

SlotRangesDisjoint ==
  /\ \A i \in 1..Len(SLOTS) : 1 \notin SlotColumns(i)
  /\ \A i, j \in 1..Len(SLOTS) : i # j => SlotColumns(i) \cap SlotColumns(j) = {}

WriteFrame ==
  /\ SlotRangesDisjoint
  /\ \A n \in SheetNames :
       /\ Len(sheets'[n]) = Len(sheets[n])
       /\ \A r \in 1..Len(sheets[n]) :
            \A c \in DOMAIN sheets[n][r] \cup DOMAIN sheets'[n][r] :
              CellOf(sheets'[n], r, c) # CellOf(sheets[n], r, c)
                => /\ n = CurSheet
                   /\ r = row_idx
                   /\ c \in SlotColumns(PickedIndex)
  /\ \A k \in 1..Len(SLOTS) :
       k # PickedIndex =>
         SlotCells(sheets'[CurSheet][row_idx], k) = SlotCells(sheets[CurSheet][row_idx], k)
  /\ CellOf(sheets'[CurSheet], row_idx, 1) = << ymd >>

C2_WriteTouchesOnlyItsSlot == [][ pc = "update" => WriteFrame ]_vars

\* a row holding the cells of two different slots has just been written
C2_Witness ==
  /\ pc \in {"find", "slack"}
  /\ sheets # sheets0
  /\ \E b \in WrittenBrands :
       \E r \in RowsOf(sheets[BRAND_SHEETS[b].sheet], ymd) :
         \E k \in 1..Len(SLOTS) :
           /\ k # PickedIndex
           /\ SlotColumns(k) \subseteq DOMAIN sheets[BRAND_SHEETS[b].sheet][r]
           /\ SlotColumns(PickedIndex) \subseteq DOMAIN sheets[BRAND_SHEETS[b].sheet][r]

(***************************************************************************)
(* C3  After any sequence of runs that do not overlap, a brand sheet holds *)
(* at most one row per date: a run for a date already present reuses its   *)
(* row, a run for an absent date adds exactly one row, at the end, and     *)
(* writes into it, and no existing row is deleted or moved.                *)
(***************************************************************************)
RowDate(row) == IF 1 \in DOMAIN row THEN row[1] ELSE ""

C3_OneRowPerDate ==
  \A b \in 1..Len(BRAND_SHEETS) :
    LET n == BRAND_SHEETS[b].sheet
        before == sheets0[n]
        after == sheets[n]
    IN /\ \A d \in { "2024-05-01", "2024-05-02" } : Cardinality(RowsOf(after, d)) <= 1
       /\ Len(after) >= Len(before)
       /\ \A i \in 1..Len(before) : RowDate(after[i]) = RowDate(before[i])
       /\ b \in WrittenBrands =>
            IF RowsOf(before, ymd) # {}
            THEN /\ Len(after) = Len(before)
                 /\ \A r \in RowsOf(before, ymd) :
                      SlotCells(after[r], PickedIndex) = ExpectedCells(BRAND_SHEETS[b].brand)
            ELSE /\ Len(after) = Len(before) + 1
                 /\ RowDate(after[Len(after)]) = ymd
                 /\ SlotCells(after[Len(after)], PickedIndex) = ExpectedCells(BRAND_SHEETS[b].brand)
       /\ (b \notin WrittenBrands /\ ~ (brand_i = b /\ pc \in {"reread", "update"}))
            => Len(after) = Len(before)

\* a sheet holding the rows of two dates, the second run having reused one of them
C3_Witness ==
  /\ runs = 2
  /\ pc = "done"
  /\ \A n \in SheetNames :
       /\ Len(sheets[n]) = Len(sheets0[n])
       /\ RowsOf(sheets0[n], ymd) # {}
       /\ sheets[n] # sheets0[n]

(***************************************************************************)
(* C4  If exactly one connector fails while the other three succeed, the   *)
(* run still writes the slot's 7 cells on each brand row, with 0 in the    *)
(* failed source's fields and the reported values in the others, and       *)
(* records the source's failure.                                           *)
(***************************************************************************)
C4_PartialFailureStillWrites ==
  (RunHasSlot /\ pc \in {"done", "failed"} /\ Cardinality(FailingScripts) = 1) =>
    /\ error # ""
    /\ \A b \in 1..Len(BRAND_SHEETS) :
         LET sheet == sheets[BRAND_SHEETS[b].sheet]
         IN /\ RowsOf(sheet, ymd) # {}
            /\ \A r \in RowsOf(sheet, ymd) :
                 SlotCells(sheet[r], PickedIndex) =
                   ExpectedCellsOf(ReportOf(procs["cafe24"]), ReportOf(procs["coupang"]),
                                   ReportOf(procs["naver"]), ReportOf(procs["meta"]),
                                   BRAND_SHEETS[b].brand)

(***************************************************************************)
(* C5  If all four connectors fail, the run ends with a fatal error and    *)
(* nothing is written: no row is appended, no cell is updated, no alert is *)
(* sent.                                                                   *)
(***************************************************************************)
C5_AllFailNothingWritten ==
  (RunHasSlot /\ Cardinality(FailingScripts) = Len(SCRIPTS)) =>
    /\ pc \in {"cafe24", "failed"}
    /\ pc = "failed" => error \in {"SCRIPT FAIL", "SCRIPT NO OUTPUT", "SCRIPT JSON PARSE FAIL"}
    /\ sheets = sheets0
    /\ alerts = << >>
    /\ \A i \in 1..Len(calls) : calls[i].op = "script"

C5_Witness ==
  /\ pc = "failed"
  /\ RunHasSlot
  /\ Cardinality(FailingScripts) = Len(SCRIPTS)
  /\ runs = 2
  /\ \E n \in SheetNames : \E d \in { "2024-05-01", "2024-05-02" } : RowsOf(sheets[n], d) # {}

(***************************************************************************)
(* C11  For result objects in which "mapped", the brand's entry or a field *)
(* is absent or null, build_row_payload and compute_roas_cpa_for_brand     *)
(* complete (the run does not end on an error of theirs), every absent     *)
(* field counts as 0, and build_row_payload yields exactly 7 values: the   *)
(* written row holds the date and the 7 cells of the slot, each the        *)
(* reported figure or 0, and the alert's KPI records are computed from the *)
(* same figures.                                                           *)
(***************************************************************************)
C11_AbsentFieldsAreZero ==
  /\ error \in {"", "SLACK WEBHOOK FAIL"}
  /\ \A b \in WrittenBrands :
       LET sheet == sheets[BRAND_SHEETS[b].sheet]
           brand == BRAND_SHEETS[b].brand
       IN /\ RowsOf(sheet, ymd) # {}
          /\ \A r \in RowsOf(sheet, ymd) :
               /\ DOMAIN sheet[r] = {1} \cup SlotColumns(PickedIndex)
               /\ \A c \in SlotColumns(PickedIndex) : sheet[r][c] \in Int
               /\ SlotCells(sheet[r], PickedIndex) = ExpectedCells(brand)
  /\ \A a \in 1..Len(alerts) :
       /\ KpiAsSpecified(alerts[a].bz, "burdenzero")
       /\ KpiAsSpecified(alerts[a].bio, "brainology")

\* a run is done whose four results all lack the first brand's figures, one
\* of them keeping figures at its top level
C11_Witness ==
  /\ pc = "done"
  /\ Len(alerts) = 1
  /\ "mapped" \notin DOMAIN naver_res.v
  /\ DictGet(cafe24_res, "mapped") = Null
  /\ DictGet(coupang_res, "mapped") = EmptyObj
  /\ DictGet(meta_res, "mapped").t = "obj"
  /\ "burdenzero" \notin DOMAIN DictGet(meta_res, "mapped").v
  /\ \E r \in RowsOf(sheets["burdenzero_now"], ymd) :
       SlotCells(sheets["burdenzero_now"][r], PickedIndex) = << 0, 0, 0, 0, 0, 0, 0 >>
  /\ alerts[1].bz.roas = Zero /\ alerts[1].bz.cpa = Zero

(***************************************************************************)
(* run_script_json against a reading of the connector's output: the call   *)
(* has returned the object of line `chosen` of stdout when the process     *)
(* exited 0 and there is such a line (chosen > 0), and has raised          *)
(* otherwise                                                               *)
(***************************************************************************)
\* the greatest member of a set of line numbers, 0 for the empty set
LastOf(S) == IF S = {} THEN 0 ELSE CHOOSE i \in S : \A j \in S : j <= i

StructuredLinesOf(p) == { i \in 1..Len(p.stdout) : p.stdout[i].k = "json" }
PrintedLinesOf(p) == { i \in 1..Len(p.stdout) : p.stdout[i].k # "blank" }

ReadsLine(chosen) ==
  LET p == procs["cafe24"]
  IN pc # "cafe24" =>
       IF p.returncode = 0 /\ chosen > 0
       THEN /\ pc = "coupang"
            /\ error = ""
            /\ cafe24_res = p.stdout[chosen].v
       ELSE /\ pc = "failed"
            /\ error \in {"SCRIPT FAIL", "SCRIPT NO OUTPUT", "SCRIPT JSON PARSE FAIL"}
            /\ cafe24_res = Null

IsRunChar(c) == c \in Digits \/ c = ","

RunStarts(text) ==
  { i \in 1..Len(text) :
      /\ text[i] \in Digits
      /\ \A j \in 1..(i - 1) :
           text[j] \in Digits => \E k \in j..(i - 1) : ~ IsRunChar(text[k]) }

RunEnd(text, i) ==
  CHOOSE e \in i..Len(text) :
    /\ \A k \in i..e : IsRunChar(text[k])
    /\ e = Len(text) \/ ~ IsRunChar(text[e + 1])

\* the number a run's digits spell, read from its last character back
RECURSIVE RunValue(_, _, _)
RunValue(text, i, e) ==
  IF e < i THEN 0
  ELSE IF text[e] = "," THEN RunValue(text, i, e - 1)
       ELSE DigitValue(text[e]) + 10 * RunValue(text, i, e - 1)

FirstOf(S) == CHOOSE i \in S : \A j \in S : i <= j

(***************************************************************************)
(* C20  parse_two_numbers returns (amount, count), the first and the       *)
(* second numeric run of the text with the separators removed: the figures *)
(* of the profile, and of its entry in the printed object, are these two.  *)
(* For a text with fewer than two numeric runs it fails and returns no     *)
(* partial value: the profile gets no figures, the process exits non-zero  *)
(* and prints no structured line.                                          *)
(***************************************************************************)
C20_ParseTwoNumbers ==
  conn_pc # "c24.parse" =>
    LET S == RunStarts(raw)
    IN IF Cardinality(S) >= 2
       THEN LET i1 == FirstOf(S)
                i2 == FirstOf(S \ {i1})
                amount == RunValue(raw, i1, RunEnd(raw, i1))
                count == RunValue(raw, i2, RunEnd(raw, i2))
            IN /\ "burdenzero" \in DOMAIN acc
               /\ DictGet(acc["burdenzero"], "sales") = Num(amount)
               /\ DictGet(acc["burdenzero"], "orders") = Num(count)
               /\ conn_pc = "exit" =>
                    /\ conn_exit = << 0 >>
                    /\ conn_out[Len(conn_out)].k = "json"
                    /\ Reported(conn_out[Len(conn_out)].v, "burdenzero", "sales") = amount
                    /\ Reported(conn_out[Len(conn_out)].v, "burdenzero", "orders") = count
                    /\ "sales" \in DOMAIN conn_out[Len(conn_out)].v.v["mapped"].v["burdenzero"].v
       ELSE /\ conn_pc = "exit"
            /\ conn_exit = << 1 >>
            /\ "burdenzero" \notin DOMAIN acc
            /\ \A i \in 1..Len(conn_out) : conn_out[i].k # "json"

\* "1,0 1" has been parsed to (10, 1) and printed
C20_Witness ==
  /\ conn_pc = "exit"
  /\ raw = << "1", ",", "0", " ", "1" >>
  /\ conn_exit = << 0 >>
  /\ Reported(conn_out[Len(conn_out)].v, "burdenzero", "sales") = 10
  /\ Reported(conn_out[Len(conn_out)].v, "burdenzero", "orders") = 1

\* "w1,0" holds a single number: the process has ended without a result
C20_FailureReached ==
  /\ conn_pc = "exit"
  /\ raw = << "w", "1", ",", "0" >>
  /\ conn_exit = << 1 >>

\* a connector has ended with exit code 0 / with a non-zero exit code
ConnSucceeded == conn_pc = "exit" /\ conn_exit = << 0 >>
ConnFailed == conn_pc = "exit" /\ conn_exit = << 1 >>

\* the last line a connector has written
FinalLine == conn_out[Len(conn_out)]

(***************************************************************************)
(* C12  When a connector ends successfully, the object on its last output  *)
(* line has status "ok", a source name, a date, and under `mapped` an      *)
(* entry for each of the two reporting brands holding sales and orders, or *)
(* spend and purchases.                                                    *)
(***************************************************************************)
C12_FinalObjectSchema ==
  ConnSucceeded =>
    /\ conn_out # << >>
    /\ FinalLine.k = "json"
    /\ LET out == FinalLine.v
       IN /\ DictGet(out, "status") = Str("ok")
          /\ DictGet(out, "source").t = "str"
          /\ DictGet(out, "date").t = "str"
          /\ DictGet(out, "mapped").t = "obj"
          /\ \A brand \in { "brainology", "burdenzero" } :
               LET entry == DictGet(DictGet(out, "mapped"), brand)
               IN /\ entry.t = "obj"
                  /\ \/ { "sales", "orders" } \subseteq DOMAIN entry.v
                     \/ { "spend", "purchases" } \subseteq DOMAIN entry.v

(***************************************************************************)
(* C14  No metric fetch (insights of the paid-media API, product orders of *)
(* the commerce API) is requested for an account unless, earlier in the    *)
(* run and in this order, its token was found valid, its permission scopes *)
(* were found sufficient and its account was found among the accessible    *)
(* ones.                                                                   *)
(***************************************************************************)
TokenCheckPassed(e, profile) ==
  \/ e.step = "debug_token" /\ e.profile = profile /\ e.out.status = 200 /\ e.out.is_valid
  \/ e.step = "cached_token" /\ e.profile = profile /\ e.out.is_valid
  \/ e.step = "oauth_token" /\ e.profile = profile /\ e.out.status = 200

ScopeCheckPassed(e, profile) ==
  /\ e.step = "permissions"
  /\ e.profile = profile
  /\ e.out.status = 200
  /\ NEEDED_PERMS \subseteq e.out.granted

AccountCheckPassed(e, profile) ==
  /\ e.step = "adaccounts"
  /\ e.profile = profile
  /\ e.out.status = 200
  /\ AdAccount(profile) \in e.out.accessible

C14_PreflightBeforeFetch ==
  \A i \in 1..Len(trace) :
    trace[i].step \in { "insights", "product_orders" } =>
      \E a \in 1..(i - 1), b \in 1..(i - 1), c \in 1..(i - 1) :
        /\ a < b
        /\ b < c
        /\ TokenCheckPassed(trace[a], trace[i].profile)
        /\ ScopeCheckPassed(trace[b], trace[i].profile)
        /\ AccountCheckPassed(trace[c], trace[i].profile)

(***************************************************************************)
(* C15  Each preflight check that does not pass ends the run with the      *)
(* error kind of that check (token: TOKEN INVALID, permissions: PERMISSION *)
(* MISSING, accounts: AD ACCOUNT ACCESS) and with no other kind; a check   *)
(* that passes raises nothing, so the insights request follows exactly     *)
(* when all three have passed.                                             *)
(***************************************************************************)
PreflightChecks == { "debug_token", "permissions", "adaccounts" }

KindOfCheck(step) ==
  CASE step = "debug_token" -> "TOKEN INVALID"
    [] step = "permissions" -> "PERMISSION MISSING"
    [] step = "adaccounts"  -> "AD ACCOUNT ACCESS"

CheckPassed(e) ==
  \/ TokenCheckPassed(e, e.profile)
  \/ ScopeCheckPassed(e, e.profile)
  \/ AccountCheckPassed(e, e.profile)

C15_PreflightErrorKinds ==
  \A i \in 1..Len(trace) :
    trace[i].step \in PreflightChecks =>
      IF CheckPassed(trace[i])
      THEN i < Len(trace) => trace[i + 1].step # "raised"
      ELSE /\ i < Len(trace)
           /\ trace[i + 1].step = "raised"
           /\ trace[i + 1].profile = trace[i].profile
           /\ trace[i + 1].out.kind = KindOfCheck(trace[i].step)

(***************************************************************************)
(* C16  Every orders or purchases count of the object a connector prints   *)
(* (at its top level, in each entry of `mapped`, in `total`) is at least   *)
(* zero.                                                                   *)
(***************************************************************************)
CountsIn(o) ==
  IF o.t # "obj" THEN {}
  ELSE { o.v[f].v : f \in { g \in DOMAIN o.v \cap { "orders", "purchases" } :
                              o.v[g].t = "num" } }

CountsOf(out) ==
  CountsIn(out) \cup CountsIn(DictGet(out, "total")) \cup
  (IF DictGet(out, "mapped").t = "obj"
   THEN UNION { CountsIn(out.v["mapped"].v[b]) : b \in DOMAIN out.v["mapped"].v }
   ELSE {})

C16_CountsNonNegative ==
  (ConnSucceeded /\ conn_out # << >> /\ FinalLine.k = "json") =>
    \A n \in CountsOf(FinalLine.v) : n >= 0

(***************************************************************************)
(* The strategies of the dashboard scraper by the reads of `trace`: the    *)
(* primary structural locator (the label cell and the cell right of it),   *)
(* the raw-markup scan, and the secondary locator (the column header and   *)
(* the cell below it).                                                     *)
(***************************************************************************)
PrimarySteps == { "label_wait", "role_cell" }
RawMarkupSteps == { "markup_scan" }
SecondarySteps == { "header_wait", "header_cell", "header_table" }

Attempted(steps, upto) == \E j \in 1..upto : trace[j].step \in steps

\* the read got a text that is not blank
NonEmptyResult(e) == e.out.k = "text" /\ normalize_text(e.out.v) # << >>

\* the read got a text, blank or without two numbers in it
EmptyOrUnparsable(e) ==
  /\ e.out.k = "text"
  /\ Cardinality(RunStarts(normalize_text(e.out.v))) < 2

(***************************************************************************)
(* C17  When the scraper fails after the primary locator read an empty     *)
(* text or a text without two numbers, the secondary locator has been      *)
(* tried.                                                                  *)
(***************************************************************************)
C17_SecondaryAfterUnparsablePrimary ==
  (/\ ConnFailed
   /\ \E i \in 1..Len(trace) :
        trace[i].step = "role_cell" /\ EmptyOrUnparsable(trace[i]))
  => Attempted(SecondarySteps, Len(trace))

(***************************************************************************)
(* C18  The strategies are attempted in the order primary, secondary,      *)
(* raw-markup scan: the scan is attempted only after reads of both         *)
(* locators, and no read follows one that got a non-empty text.            *)
(***************************************************************************)
C18_StrategyOrder ==
  \A i \in 1..Len(trace) :
    /\ trace[i].step \in RawMarkupSteps =>
         /\ Attempted(PrimarySteps, i - 1)
         /\ Attempted(SecondarySteps, i - 1)
    /\ (trace[i].step \in PrimarySteps \cup RawMarkupSteps \cup SecondarySteps
          /\ NonEmptyResult(trace[i])) => i = Len(trace)

(***************************************************************************)
(* C19  When the scraper fails without any read having got a non-empty     *)
(* text, every strategy has been attempted: an exception inside one of     *)
(* them has not kept another from being tried.                             *)
(***************************************************************************)
C19_ErrorOnlyAfterEveryStrategy ==
  (/\ ConnFailed
   /\ trace # << >>
   /\ \A i \in 1..Len(trace) :
        /\ trace[i].step \in PrimarySteps \cup RawMarkupSteps \cup SecondarySteps
        /\ ~ NonEmptyResult(trace[i]))
  => /\ Attempted(PrimarySteps, Len(trace))
     /\ Attempted(RawMarkupSteps, Len(trace))
     /\ Attempted(SecondarySteps, Len(trace))

(***************************************************************************)
(* C30  A run sends at most one alert, and only after the slot was written *)
(* to both brand sheets with no spreadsheet call having failed; a failed   *)
(* spreadsheet call ends the run with an error and without an alert; the   *)
(* alert step, whether it sends, fails or is not configured, changes no    *)
(* cell.                                                                   *)
(***************************************************************************)
CallsOf(op) == { i \in 1..Len(calls) : calls[i].op = op }

AlertAfterWrites ==
  /\ Cardinality(CallsOf("slack.post")) <= 1
  /\ Len(alerts) <= Cardinality(CallsOf("slack.post"))
  /\ \A i \in CallsOf("slack.post") :
       /\ CallsOf("sheets.fail") = {}
       /\ \A b \in 1..Len(BRAND_SHEETS) :
            \E j \in CallsOf("sheets.update") :
              j < i /\ calls[j].arg = BRAND_SHEETS[b].sheet
  /\ CallsOf("sheets.fail") # {} =>
       /\ pc = "failed"
       /\ error # ""
       /\ alerts = << >>

C30_OneAlertAfterBothWrites ==
  /\ []AlertAfterWrites
  /\ [][ pc = "slack" => sheets' = sheets ]_vars

\* an alert went out after both sheets were written
C30_Witness ==
  /\ pc = "done"
  /\ Len(alerts) = 1
  /\ Cardinality(CallsOf("sheets.update")) = 2

\* the second sheet's update failed after the first sheet was written
C30_FailureReached ==
  /\ pc = "failed"
  /\ Cardinality(CallsOf("sheets.update")) = 1
  /\ CallsOf("sheets.fail") # {}
  /\ sheets # sheets0

(***************************************************************************)
(* C26  Once a run has written both brand sheets, the marketplace sales    *)
(* written to the two sheets add up to the net sales of every brand of the *)
(* marketplace result, the third brand included.                           *)
(***************************************************************************)
\* the value the current run wrote to field k of its slot on a sheet
WrittenField(sheet, k) ==
  LET r == CHOOSE i \in RowsOf(sheet, ymd) : TRUE
  IN SlotCells(sheet[r], PickedIndex)[k]

C26_ThirdBrandFolded ==
  (pc \in { "slack", "done" } /\ picked # << >>) =>
    WrittenField(sheets["burdenzero_now"], 4) + WrittenField(sheets["brainology_now"], 4)
      = Reported(coupang_res, "burdenzero", "sales")
          + Reported(coupang_res, "brainology", "sales")
          + Reported(coupang_res, "ppadi", "sales")

(***************************************************************************)
(* C29  A run that ends with a configuration error (a required setting is  *)
(* missing) has made no connector request and no spreadsheet call.         *)
(***************************************************************************)
C29_ConfigErrorBeforeAnyActivity ==
  (pc = "failed" /\ error = "ENV") => calls = << >>

(***************************************************************************)
(* C28  The storefront connector reports, over the line items of every     *)
(* page it was answered: as sales the sum of initial amount minus initial  *)
(* discount, as orders the number of distinct order identifiers, and the   *)
(* number of line items separately; orders never exceeds the line items.   *)
(***************************************************************************)
\* the line items of the pages answered in a trace, in order
RECURSIVE LineItems(_)
LineItems(tr) ==
  IF tr = << >> THEN << >>
  ELSE (IF Head(tr).step = "product_orders" /\ Head(tr).out.status = 200
        THEN Head(tr).out.contents ELSE << >>) \o LineItems(Tail(tr))

\* the integer a field holds: a number, a text of digits, otherwise nothing
IntegerOf(v) ==
  IF v.t = "num" THEN v.v
  ELSE IF v.t = "str" /\ v.v # << >> /\ \A i \in 1..Len(v.v) : v.v[i] \in Digits
       THEN digits_value(v.v, 0)
       ELSE 0

RECURSIVE NetAmount(_)
NetAmount(items) ==
  IF items = << >> THEN 0
  ELSE IntegerOf(Head(items).initialProductAmount)
         - IntegerOf(Head(items).initialProductDiscountAmount)
         + NetAmount(Tail(items))

OrderIdsOf(items) ==
  { items[i].orderId.v : i \in { j \in 1..Len(items) : items[j].orderId.t # "null" } }

NaverSucceeded ==
  /\ ConnSucceeded
  /\ conn_out # << >>
  /\ FinalLine.k = "json"
  /\ DictGet(FinalLine.v, "source") = Str("naver")

C28_NaverTotals ==
  NaverSucceeded =>
    LET items == LineItems(trace)
        out == FinalLine.v
    IN /\ DictGet(out, "sales") = Num(NetAmount(items))
       /\ DictGet(out, "orders") = Num(Cardinality(OrderIdsOf(items)))
       /\ DictGet(out, "product_order_count") = Num(Len(items))
       /\ DictGet(out, "orders").v <= DictGet(out, "product_order_count").v

\* two pages were answered, two line items share an order and one has none
C28_Witness ==
  /\ NaverSucceeded
  /\ LET items == LineItems(trace)
     IN /\ Len(items) >= 4
        /\ \E i, j \in 1..Len(items) : i # j /\ items[i].orderId = items[j].orderId
        /\ \E i \in 1..Len(items) : items[i].orderId = Null
        /\ DictGet(FinalLine.v, "orders").v < Len(items)

(***************************************************************************)
(* C25  aggregate_by_brand gives each product name to at most one brand,   *)
(* the first brand in map order with a keyword contained in the name; a    *)
(* name with no keyword is in no brand's total.  Of the names "budamjero   *)
(* 30po", "ppadi seutik", "nyuteonjelri kijeu" and "jeongchebulmyeong      *)
(* sangpum", three are classified, one per brand, and the fourth is in no  *)
(* total.                                                                  *)
(***************************************************************************)
CoupangSucceeded ==
  /\ ConnSucceeded
  /\ conn_out # << >>
  /\ FinalLine.k = "json"
  /\ DictGet(FinalLine.v, "source") = Str("coupang")

\* keyword k occurs in the name
Contains(name, k) ==
  \E pre, post \in 0..Len(name) :
    /\ pre + Len(k) + post = Len(name)
    /\ \A i \in 1..Len(k) : name[pre + i] = k[i]

\* brand number b has a keyword in the name
Matches(name, b) == \E k \in brand_map[b].keywords : Contains(name, k)

\* the names of a product table that belong to brand number b
NamesOf(agg, b) ==
  { n \in DOMAIN agg : Matches(n, b) /\ \A c \in 1..(b - 1) : ~ Matches(n, c) }

\* the output key of each brand of brand_map, in map order
OutKey == << "burdenzero", "ppadi", "brainology" >>

\* the export of the four named products
IsWorkedExport(ws) ==
  /\ Len(ws) = 5
  /\ ws[2].C = Str(<< "bu", "dam", "je", "ro", " ", "3", "0", "po" >>)
  /\ ws[3].C = Str(<< "ppa", "di", " ", "seu", "tik" >>)
  /\ ws[4].C = Str(<< "nyu", "teon", "jel", "ri", " ", "ki", "jeu" >>)
  /\ ws[5].C = Str(<< "jeong", "che", "bul", "myeong", " ", "sang", "pum" >>)

C25_FirstMatchingBrand ==
  CoupangSucceeded =>
    LET agg == aggregate_from_excel(world)
        mapped == DictGet(FinalLine.v, "mapped")
    IN /\ \A b \in 1..Len(brand_map) :
            /\ DictGet(DictGet(mapped, OutKey[b]), "sales")
                 = Num(sum_products(NamesOf(agg, b), agg).sales)
            /\ DictGet(DictGet(mapped, OutKey[b]), "orders")
                 = Num(sum_products(NamesOf(agg, b), agg).qty)
       /\ \A b, c \in 1..Len(brand_map) : b # c => NamesOf(agg, b) \cap NamesOf(agg, c) = {}
       /\ IsWorkedExport(world) =>
            /\ DictGet(DictGet(mapped, "burdenzero"), "sales") = Num(world[2].O.v)
            /\ DictGet(DictGet(mapped, "ppadi"), "sales") = Num(world[3].O.v)
            /\ DictGet(DictGet(mapped, "brainology"), "sales") = Num(world[4].O.v)

\* the run over the export of the four named products has ended
C25_Witness == CoupangSucceeded /\ IsWorkedExport(world)

\* a run over a product whose name holds keywords of two brands has ended
C25_TwoBrandNameReached ==
  /\ CoupangSucceeded
  /\ \E n \in DOMAIN aggregate_from_excel(world) : Matches(n, 1) /\ Matches(n, 3)

(***************************************************************************)
(* C27  parse_purchases_from_actions returns the sum of the integer values *)
(* of exactly the action records whose type is in the purchase set or ends *)
(* with ".purchase"; records of any other type and records without a value *)
(* add nothing, and no records give 0.                                     *)
(***************************************************************************)
\* the action records the insights request was answered
AnsweredActions == world.insights.rows[1].actions

\* the purchases recorded for the profile whose request was answered
RecordedPurchases == DictGet(acc[PROFILES[Len(PROFILES)]], "purchases")

\* the records that count: a purchase type and a value that is a number
CountedActions(actions) ==
  SelectSeq(actions, LAMBDA a : /\ a.value.t = "dec"
                                /\ \/ a.action_type \in PURCHASE_ACTION_KEYS
                                   \/ EndsWithDotPurchase(a.action_type))

RECURSIVE IntegerValues(_)
IntegerValues(actions) ==
  IF actions = << >> THEN 0
  ELSE (IF Head(actions).value.v >= 0 THEN Head(actions).value.v \div 10
        ELSE 0 - ((0 - Head(actions).value.v) \div 10))
       + IntegerValues(Tail(actions))

PurchasesAnswered == world # << >> /\ conn_pc \in { "meta.print", "exit" }

C27_PurchaseSum ==
  PurchasesAnswered =>
    /\ RecordedPurchases = Num(IntegerValues(CountedActions(AnsweredActions)))
    /\ AnsweredActions = << >> => RecordedPurchases = Num(0)
    /\ (\A i \in 1..Len(AnsweredActions) :
           \/ AnsweredActions[i].value = Null
           \/ AnsweredActions[i].action_type = "link_click") => RecordedPurchases = Num(0)

\* a purchase, a record of a type ending in ".purchase" and a record of
\* another type, each with a value, were answered
C27_Witness ==
  /\ PurchasesAnswered
  /\ \E i, j, k \in 1..Len(AnsweredActions) :
       /\ AnsweredActions[i] = Action("purchase", Dec(27))
       /\ AnsweredActions[j] = Action("app_custom_event.purchase", Dec(-30))
       /\ AnsweredActions[k] = Action("link_click", Dec(27))
  /\ RecordedPurchases = Num(-1)

(***************************************************************************)
(* Browser sessions: the events of the current session                     *)
(***************************************************************************)
Positions(e) == { i \in 1..Len(events) : events[i] = e }
Happened(e) == Positions(e) # {}
Count(e) == Cardinality(Positions(e))
LastEvent == events[Len(events)]

\* a snapshot was attempted by the handler of a failed fetch
SnapshotAttempted == Happened("save_debug") \/ Happened("save_debug.raise")

(***************************************************************************)
(* C21  When a dashboard connector fails after attempting its debug        *)
(* snapshot, the error that reaches the caller is the connector's failure  *)
(* error, never an error of the snapshot step.                             *)
(***************************************************************************)
C21_FailureErrorAfterSnapshot ==
  (ConnFailed /\ events # << >> /\ SnapshotAttempted) => LastEvent = "error.failure"

(***************************************************************************)
(* C23  When the login form of the site dashboard is still displayed after *)
(* the credentials were submitted, the fetch ends with an error and the    *)
(* dashboard is neither navigated to nor scraped.                          *)
(***************************************************************************)
C23_NoFetchAfterLoginFailure ==
  Happened("login.form_displayed") =>
    /\ ConnFailed
    /\ ~ Happened("dashboard.goto")
    /\ trace = << >>

(***************************************************************************)
(* C24  A browser session that was opened is closed, context first and     *)
(* browser after it, whenever its fetch has ended: on success, on an       *)
(* extraction failure and on a failure of the debug snapshot.  Each fetch  *)
(* launches its own session, and only when the session before it is       *)
(* closed.                                                                 *)
(***************************************************************************)
\* no session is open after these events
Released(log) ==
  \/ \A i \in 1..Len(log) : log[i] # "launch"
  \/ \E i, j \in 1..Len(log) : /\ i < j
                                /\ log[i] = "context.close"
                                /\ log[j] = "browser.close"
                                /\ \A k \in 1..Len(log) : k > j => log[k] \in { "error.failure", "error.snapshot" }

\* the connector is between two fetches or has ended
BetweenFetches == conn_pc \in { "c24.open", "c24.print", "coupang.start", "exit" }

\* this step begins a session: the events start over
BeginsSession ==
  /\ events' # events
  /\ \/ events = << >>
     \/ Len(events') < Len(events)
     \/ SubSeq(events', 1, Len(events)) # events

C24_SessionsReleased ==
  /\ [](BetweenFetches => Released(events))
  /\ [](Count("launch") <= 1)
  /\ [][ BeginsSession => /\ Released(events)
                           /\ events'[1] \in { "launch", "launch.raise" } ]_vars
  /\ [][ conn_pc = "c24.open" => BeginsSession ]_vars

\* the second fetch of a process failed and its snapshot failed too
C24_Witness ==
  /\ ConnFailed
  /\ profile_i = 2
  /\ Happened("dashboard.goto")
  /\ Happened("save_debug.raise")
  /\ Happened("context.close") /\ Happened("browser.close")

\* a process ended in success
C24_SuccessReached ==
  ConnSucceeded /\ Happened("launch") /\ Happened("browser.close")

\* a fetch failed in extraction and its snapshot was saved
C24_ExtractionFailureReached ==
  /\ ConnFailed
  /\ Happened("dashboard.goto")
  /\ trace # << >>
  /\ Happened("save_debug")
  /\ Happened("browser.close")

(***************************************************************************)
(* C22  In the marketplace connector a failed export download is followed  *)
(* by a full re-navigation to the sales page.  When the sales page comes   *)
(* up, the download is retried exactly once; when it does not, the         *)
(* connector ends with an error without a retry.  When the second attempt  *)
(* fails, the connector ends with an error.  A run never makes more than   *)
(* two download attempts.                                                  *)
(***************************************************************************)
\* a second download attempt comes after a failed one and a navigation to the
\* sales page between the two
RetryAfterRenavigation ==
  \A i, j \in Positions("download") :
    i < j => \E f \in Positions("download.raise"), g \in Positions("sales.goto") :
               i < f /\ f < g /\ g < j

\* the run ended after a retry: in success when the retry succeeded, in an
\* error when it failed
EndedAfterRetry ==
  /\ Count("download") = 2
  /\ IF Count("download.raise") = 2 THEN ConnFailed ELSE ConnSucceeded

\* the run ended in an error because the sales page did not come up again
EndedWithoutRetry ==
  /\ Count("download") = 1
  /\ ConnFailed
  /\ \E f \in Positions("download.raise"), g \in Positions("sales.goto") : f < g
  /\ \E f \in Positions("download.raise"),
        g \in Positions("sales.timeout") \cup Positions("sales.goto.raise") : f < g

DownloadFailedAndEnded == conn_pc = "exit" /\ Happened("download.raise")

C22_RetryAfterRenavigation ==
  /\ Count("download") <= 2
  /\ RetryAfterRenavigation
  /\ DownloadFailedAndEnded => (EndedAfterRetry \/ EndedWithoutRetry)

\* C22 as stated: a failed export download is retried exactly once, after a
\* full re-navigation; a second failure ends the run with an error; never
\* more than two download attempts
C22_RetriedExactlyOnce ==
  /\ Count("download") <= 2
  /\ RetryAfterRenavigation
  /\ DownloadFailedAndEnded => EndedAfterRetry

\* the retry succeeded after a re-navigation that needed a second round
C22_Witness ==
  /\ ConnSucceeded
  /\ Count("download") = 2
  /\ Count("download.raise") = 1
  /\ \E f \in Positions("download.raise"), g \in Positions("sales.timeout") : f < g

\* the run ended in an error after two failed downloads
C22_SecondFailureReached ==
  ConnFailed /\ Count("download.raise") = 2

\* the run ended in an error after one failed download and no retry
C22_NoRetryReached == DownloadFailedAndEnded /\ EndedWithoutRetry

(***************************************************************************)
(* C31  One call of open_sales_url_with_retry with retries = 1 navigates   *)
(* to the sales page at most twice: of any three navigations, the first    *)
(* and the last belong to different calls, with a download attempt between *)
(* them.                                                                   *)
(***************************************************************************)
C31_AtMostTwoNavigations ==
  \A i, j, k \in Positions("sales.goto") :
    (i < j /\ j < k) => \E d \in Positions("download") : i < d /\ d < k

(***************************************************************************)
(* C32  get_access_token returns the cached token exactly when             *)
(* force_refresh is not set and the cache holds a token whose expiry lies  *)
(* more than 60 seconds after the current time.  Otherwise it issues a new *)
(* token and returns it; the cache then holds the new token with           *)
(* expires_at = issue time + max(expires_in, 0), or what it held before    *)
(* when the write failed, and a failed write never fails the call.         *)
(***************************************************************************)
\* the cache holds a token that expires more than 60 seconds after the clock
FreshCache(w) ==
  /\ w.cache # << >>
  /\ w.cache.access_token # ""
  /\ w.cache.expires_at > w.clock + 60

\* the step in which get_access_token decides: the cached token is returned
\* in exactly the case above, a new one is asked for in every other case
CachedTokenStep ==
  (conn_pc = "naver.start" /\ conn_pc' # "exit") =>
    IF ~ world'.force /\ FreshCache(world')
    THEN conn_pc' = "naver.orders" /\ acc'.token = world'.cache.access_token
    ELSE conn_pc' = "naver.token"

\* the step in which the token request is answered: the new token is
\* returned whether or not the cache was written
NewTokenStep ==
  (conn_pc = "naver.token" /\ trace'[Len(trace')].step = "oauth_token") =>
    LET r == trace'[Len(trace')].out
        lifetime == IF r.expires_in >= 0 THEN r.expires_in ELSE 0
    IN /\ conn_pc' = "naver.orders"
       /\ acc'.token = r.access_token
       /\ \/ world'.cache = [access_token |-> r.access_token,
                              expires_at |-> world.clock + lifetime]
          \/ world'.cache = world.cache

C32_TokenCache ==
  /\ [][CachedTokenStep]_vars
  /\ [][NewTokenStep]_vars

\* a token 60 seconds from expiry was not reused: a new token was issued and
\* returned although the cache could not be written
C32_Witness ==
  /\ conn_pc = "naver.orders"
  /\ ~ world.force
  /\ world.cache = [access_token |-> "old", expires_at |-> 1060]
  /\ acc.token = "new"

\* a token 61 seconds from expiry was reused
C32_CachedReached ==
  /\ conn_pc = "naver.orders"
  /\ world.cache = [access_token |-> "old", expires_at |-> 1061]
  /\ acc.token = "old"

\* the cache holds a new token whose expires_in was negative
C32_WrittenReached ==
  /\ conn_pc = "naver.orders"
  /\ world.cache = [access_token |-> "new", expires_at |-> 1000]

(***************************************************************************)
(* C33  iter_product_orders asks for pages 1, 2, 3, ... in order, hands on *)
(* every row of every page it was answered once, and stops after the first *)
(* page without hasNext; an answer with a status other than 200 ends it    *)
(* with an error; and the iteration ends whenever the server comes to a    *)
(* page without hasNext.                                                   *)
(***************************************************************************)
\* the requests for pages of product orders, in order
PageRequests == SelectSeq(trace, LAMBDA e : e.step = "product_orders")

PagesInOrder == \A k \in 1..Len(PageRequests) : PageRequests[k].out.page = k

\* only the last request may be answered with an error or without hasNext
StopsAtLastPage ==
  \A k \in 1..Len(PageRequests) :
    k < Len(PageRequests) => PageRequests[k].out.status = 200 /\ PageRequests[k].out.hasNext

\* after the last answer so far the iteration goes on, has ended, or has failed
AfterLastAnswer ==
  PageRequests # << >> =>
    LET r == PageRequests[Len(PageRequests)].out
    IN IF r.status # 200
       THEN ConnFailed /\ trace[Len(trace)] = Request("raised", "naver", [kind |-> "API ERROR"])
       ELSE IF r.hasNext THEN conn_pc = "naver.orders"
            ELSE conn_pc = "naver.print" \/ ConnSucceeded

\* every row answered so far was handed on once
RowsOnce ==
  (conn_pc \in { "naver.orders", "naver.print" } \/ PageRequests # << >>) =>
    acc.count = Len(LineItems(trace))

C33_Pagination ==
  /\ [](PagesInOrder /\ StopsAtLastPage /\ AfterLastAnswer /\ RowsOnce)
  /\ (conn_pc = "naver.orders") ~> (conn_pc \in { "naver.print", "exit" })

\* two pages were asked for, the second is the last, and the run has ended
C33_Witness ==
  /\ ConnSucceeded
  /\ Len(PageRequests) = 2
  /\ PageRequests[1].out.hasNext /\ PageRequests[1].out.contents # << >>
  /\ ~ PageRequests[2].out.hasNext /\ PageRequests[2].out.contents # << >>

\* the second page was answered with an error
C33_ErrorReached ==
  /\ ConnFailed
  /\ Len(PageRequests) = 2
  /\ PageRequests[2].out.status = 400

(***************************************************************************)
(* C35  In a completed run that delivered its alert, the alert's figures   *)
(* for each brand agree with the row just written for it: spend is the 1st *)
(* slot cell, revenue the sum of the 2nd, 4th and 6th, purchases the sum   *)
(* of the 3rd, 5th and 7th.                                                *)
(***************************************************************************)
AlertDelivered == pc = "done" /\ alerts # << >>

AlertMatchesRow(kpi, sheet) ==
  /\ kpi.spend = WrittenField(sheet, 1)
  /\ kpi.revenue = WrittenField(sheet, 2) + WrittenField(sheet, 4) + WrittenField(sheet, 6)
  /\ kpi.purchases = WrittenField(sheet, 3) + WrittenField(sheet, 5) + WrittenField(sheet, 7)

C35_AlertMatchesRow ==
  AlertDelivered =>
    /\ AlertMatchesRow(alerts[Len(alerts)].bz, sheets["burdenzero_now"])
    /\ AlertMatchesRow(alerts[Len(alerts)].bio, sheets["brainology_now"])

\* an alert was delivered whose figures differ between the two brands
C35_Witness ==
  /\ AlertDelivered
  /\ alerts[Len(alerts)].bz.spend > 0
  /\ alerts[Len(alerts)].bz.revenue > 0
  /\ alerts[Len(alerts)].bz.purchases > 0
  /\ alerts[Len(alerts)].bz.spend # alerts[Len(alerts)].bio.spend
  /\ alerts[Len(alerts)].bz.revenue # alerts[Len(alerts)].bio.revenue
  /\ alerts[Len(alerts)].bz.purchases # alerts[Len(alerts)].bio.purchases

(***************************************************************************)
(* C36  When the storefront connector succeeded and reported non-zero      *)
(* sales or orders for the day, a run that has written both brand rows has *)
(* written that figure to the storefront cells of a brand row: the cells   *)
(* are not all 0.                                                          *)
(***************************************************************************)
\* the figure the storefront connector printed at the top level of its result
StorefrontFigure(field) ==
  IF naver_res.t = "obj" /\ DictGet(naver_res, field).t = "num"
  THEN DictGet(naver_res, field).v ELSE 0

C36_ZeroIsGenuine ==
  (pc \in { "slack", "done" } /\ picked # << >>) =>
    /\ StorefrontFigure("sales") # 0 =>
         \/ WrittenField(sheets["burdenzero_now"], 6) # 0
         \/ WrittenField(sheets["brainology_now"], 6) # 0
    /\ StorefrontFigure("orders") # 0 =>
         \/ WrittenField(sheets["burdenzero_now"], 7) # 0
         \/ WrittenField(sheets["brainology_now"], 7) # 0

(***************************************************************************)
(* Two writers on one sheet: the run's upsert steps interleaved with a     *)
(* second run's find_or_create_today_row on the same sheet and with a      *)
(* writer that appends a row of its own.  The Sheets service serialises    *)
(* the single calls; nothing serialises the helper's three calls.          *)
(***************************************************************************)
\* the bound on the rows a foreign writer appends to one sheet
MaxForeignRows == 1

\* the calls of one kind logged for a sheet
CallsOn(op, sheet) == { i \in 1..Len(calls) : calls[i] = Call(op, sheet) }

\* the second run's colA = get_sheet_values(...) and scan: it found no row for
\* ymd and goes on to append (a scan that finds the row appends nothing)
OtherFind ==
  /\ pc \in { "find", "append", "reread", "update" }
  /\ CallsOn("other.get", CurSheet) = { }
  /\ find_today_row(get_sheet_values(sheets[CurSheet]), ymd) = 0
  /\ calls' = Append(calls, Call("other.get", CurSheet))
  /\ UNCHANGED << sheets, pc, runs, env, picked, ymd, results, brand_i, row_idx,
                  error, alerts, sheets0 >>
  /\ UNCHANGED conn_vars

\* the second run's append_sheet_values(svc, sheet_name, "A:A", [[ymd]])
OtherAppend ==
  /\ pc \in { "find", "append", "reread", "update" }
  /\ CallsOn("other.get", CurSheet) # { }
  /\ CallsOn("other.append", CurSheet) = { }
  /\ sheets' = [sheets EXCEPT ![CurSheet] = append_sheet_values(@, ymd)]
  /\ calls' = Append(calls, Call("other.append", CurSheet))
  /\ UNCHANGED << pc, runs, env, picked, ymd, results, brand_i, row_idx,
                  error, alerts, sheets0 >>
  /\ UNCHANGED conn_vars

\* a writer outside the program appends a row of its own (a note, no date of
\* this run) through the same values().append call
ExternalAppend ==
  /\ pc \in { "find", "append", "reread", "update" }
  /\ Cardinality(CallsOn("external.append", CurSheet)) < MaxForeignRows
  /\ sheets' = [sheets EXCEPT ![CurSheet] = append_sheet_values(@, "memo")]
  /\ calls' = Append(calls, Call("external.append", CurSheet))
  /\ UNCHANGED << pc, runs, env, picked, ymd, results, brand_i, row_idx,
                  error, alerts, sheets0 >>
  /\ UNCHANGED conn_vars

NextRace ==
  \/ GetSheetsService
  \/ FindRow
  \/ AppendRow
  \/ RereadRow
  \/ UpdateRow
  \/ SheetsFail
  \/ SlackPost
  \/ OtherFind
  \/ OtherAppend
  \/ ExternalAppend

SpecRace == InitUpsert /\ [][NextRace]_vars

(***************************************************************************)
(* C34  Under interleaving with a second run or a foreign writer, the row  *)
(* index find_or_create_today_row returned is the index of a row whose     *)
(* date cell equals the requested date, and no sheet holds more than one   *)
(* row for that date.                                                      *)
(***************************************************************************)
\* the helper has returned and the row it named is a row of ymd
ReturnedRowIsDated ==
  pc = "update" => row_idx \in RowsOf(sheets[CurSheet], ymd)

\* no sheet holds two rows for ymd
OneRowPerDate ==
  \A s \in SheetNames : Cardinality(RowsOf(sheets[s], ymd)) <= 1

C34_RaceKeepsOneDatedRow == ReturnedRowIsDated /\ OneRowPerDate

=============================================================================
